---- MODULE Spec2Model ----
(***************************************************************************)
(* Mankai: an interpreter for a small S-expression language.               *)
(*                                                                         *)
(* The module models the layered Environment (environment.rs), the runtime *)
(* values and the call dispatch (interpreter.rs) and the special forms     *)
(* (special_forms.rs), native functions (native_functions.rs) and the      *)
(* equality of values, and the lexer (lexer.rs) and the parser (parser.rs) *)
(* a front end runs on a line.  The recursive evaluator is unfolded into a *)
(* machine with an explicit stack of pending frames: a frame is a suspended *)
(* Rust activation (evaluate_list waiting for its callee or an argument,   *)
(* MankaiObject::call waiting for the body, a special form waiting for a   *)
(* sub-expression).                                                        *)
(***************************************************************************)
EXTENDS Integers, Sequences, FiniteSets, TLC

VARIABLES
    layers,     \* Environment.layers: Vec<HashMap<String, MankaiObject>>
    panic,      \* message of the panic!() that aborted the process, "" if none
    ctrl,       \* what the evaluator is doing right now
    stack,      \* suspended activations, innermost last
    acts,       \* history: one record per evaluate() activation of the
                \* current top-level evaluation, in order of entry
    nEvals,     \* number of top-level evaluate() calls made so far
    lastOp,     \* history: last Environment method called by a client
    snaps,      \* history: what every identifier looked up to at each extend
    special_forms,      \* Interpreter.special_forms: reserved names
    native_functions,   \* Interpreter.native_functions: reserved names
    constants           \* Interpreter.constants: reserved names

\* The three reserved-name tables of the Interpreter.
tables == <<special_forms, native_functions, constants>>

vars == <<layers, panic, ctrl, stack, acts, nEvals, lastOp, snaps,
          special_forms, native_functions, constants>>

(***************************************************************************)
(* Bounds of the model.                                                    *)
(***************************************************************************)
MaxLayers == 3      \* layers a client of Environment pushes at most
MaxEvals  == 3      \* top-level evaluate() calls in one session
MaxCalls  == 3      \* nested calls of user-defined functions the model
                    \* follows a recursion into
MaxArgs   == 3      \* arguments handed to a native function called directly

(***************************************************************************)
(* Tokens and S-expressions (token.rs, parser.rs).                         *)
(***************************************************************************)
Token(lexeme, kind) == [lexeme |-> lexeme, kind |-> kind]

Identifier == [k |-> "Identifier"]
LeftParen  == [k |-> "LeftParen"]
RightParen == [k |-> "RightParen"]
Eof        == [k |-> "Eof"]
TokenKindNumber(n) == [k |-> "Number", n |-> n]
TokenKindString(s) == [k |-> "String", s |-> s]

Atom(token)   == [atom |-> token]
SexpList(seq) == [list |-> seq]
IsAtom(sexp)  == "atom" \in DOMAIN sexp

\* Shorthands for writing expressions down.
Id(lexeme) == Atom(Token(lexeme, Identifier))
Num(n)     == Atom(Token(ToString(n), TokenKindNumber(n)))
Str(s)     == Atom(Token("\"" \o s \o "\"", TokenKindString(s)))

(***************************************************************************)
(* Runtime values (MankaiObject) and results.                              *)
(***************************************************************************)
Number(n)      == [t |-> "Number", n |-> n]
String(s)      == [t |-> "String", s |-> s]
List(l)        == [t |-> "List", l |-> l]
Bool(b)        == [t |-> "Bool", b |-> b]
SpecialForm(f) == [t |-> "SpecialForm", sf |-> f]
Native(f)      == [t |-> "Native", nf |-> f]
None           == [some |-> FALSE]
Some(s)        == [some |-> TRUE, v |-> s]
Function(name, arguments_identifiers, body) ==
    [t |-> "Function", name |-> name,
     arguments_identifiers |-> arguments_identifiers, body |-> body]

Ok(value)    == [ok |-> TRUE, value |-> value]
Err(message) == [ok |-> FALSE, message |-> message]

(***************************************************************************)
(* Numbers are f64 in the program.  The model has the integers, written    *)
(* Number(n), and what dividing them gives: the reduced fractions          *)
(* [t |-> "Number", n |-> numerator, d |-> denominator] with d > 1, and    *)
(* with d = 0 the infinities (n = 1, n = -1) and NaN (n = 0).  Arithmetic  *)
(* is exact: the rounding of f64 is not modelled, nor is the negative zero.*)
(***************************************************************************)
Numerator(value)   == value.n
Denominator(value) == IF "d" \in DOMAIN value THEN value.d ELSE 1
IsNaN(value) == Numerator(value) = 0 /\ Denominator(value) = 0

Abs(i) == IF i < 0 THEN -i ELSE i
Sign(i) == IF i < 0 THEN -1 ELSE IF i > 0 THEN 1 ELSE 0

RECURSIVE Gcd(_, _)
Gcd(i, j) == IF j = 0 THEN i ELSE Gcd(j, i % j)

\* The number num / den.
Ratio(num, den) ==
    IF den = 0 THEN [t |-> "Number", n |-> Sign(num), d |-> 0]
    ELSE LET g == Gcd(Abs(num), Abs(den))
             n == Sign(den) * (num \div g)
             d == Abs(den) \div g
         IN  IF d = 1 THEN Number(n) ELSE [t |-> "Number", n |-> n, d |-> d]

\* x / y on f64: a / b over c / d is (a * d) / (b * c).
Divide(x, y) ==
    Ratio(Numerator(x) * Denominator(y), Denominator(x) * Numerator(y))

(***************************************************************************)
(* impl PartialEq for MankaiObject.                                        *)
(***************************************************************************)
\* As eq, the equality a derive(PartialEq) would give.
eqStructural(self, other) == self = other

RECURSIVE eq(_, _)
eq(self, other) ==
    CASE self.t = "Number" ->
             \* n == m on f64: NaN is equal to nothing
             other.t = "Number" /\ ~IsNaN(self) /\ ~IsNaN(other) /\ self = other
      [] self.t = "String" -> other.t = "String" /\ self.s = other.s
      [] self.t = "List" ->
             \* l1 == l2 on Vec<MankaiObject>: the lengths, then the elements
             /\ other.t = "List"
             /\ Len(self.l) = Len(other.l)
             /\ \A i \in DOMAIN self.l : eq(self.l[i], other.l[i])
      [] self.t = "Bool" -> other.t = "Bool" /\ self.b = other.b
      [] self.t = "SpecialForm" -> FALSE
      [] self.t = "Native" -> FALSE
      [] self.t = "Function" -> FALSE

(***************************************************************************)
(* Environment (environment.rs).  A layer is a function from the lexemes   *)
(* bound in it to their values.                                            *)
(***************************************************************************)
EmptyLayer == [lexeme \in {} |-> Number(0)]

SpecialFormNames == {"if!", "lambda!", "set!"}
SpecialFormOf(name) ==
    CASE name = "if!"     -> "if_special_form"
      [] name = "lambda!" -> "lambda"
      [] name = "set!"    -> "set"

NativeNames ==
    {"+", "-", "*", "/", "=", ">", "bool?", "list?", "number?", "string?",
     "<", "and", "car", "cdr", "cons", "list", "not", "or", "string-concat",
     "to-string"}

ConstantNames == {"true", "false"}

\* Environment::new: one layer holding the special forms, the native
\* functions and the constants.
EnvironmentNew ==
    << [lexeme \in SpecialFormNames \cup NativeNames \cup ConstantNames |->
          IF lexeme \in SpecialFormNames THEN SpecialForm(SpecialFormOf(lexeme))
          ELSE IF lexeme \in NativeNames THEN Native(lexeme)
          ELSE Bool(lexeme = "true")] >>

\* As Insert, keeping the value of a key the layer already holds.
InsertKeepFirst(layer, key, value) ==
    [lexeme \in DOMAIN layer \cup {key} |->
        IF lexeme \in DOMAIN layer THEN layer[lexeme] ELSE value]

Insert(layer, key, value) ==
    [lexeme \in DOMAIN layer \cup {key} |->
        IF lexeme = key THEN value ELSE layer[lexeme]]

\* Environment::define panics when there is no layer at all.
definePanics(ls) == Len(ls) = 0

\* As define, writing into the global layer.
defineGlobal(ls, identifier, value) ==
    IF Len(ls) > 0
    THEN [ls EXCEPT ![1] = Insert(ls[1], identifier.lexeme, value)]
    ELSE ls

\* As define, writing into the topmost layer that binds the identifier
\* already, and into the topmost layer when none does.
defineWhereBound(ls, identifier, value) ==
    LET bound == {i \in DOMAIN ls : identifier.lexeme \in DOMAIN ls[i]}
        target == IF bound = {} THEN Len(ls)
                  ELSE CHOOSE i \in bound : \A j \in bound : j <= i
    IN  IF Len(ls) > 0
        THEN [ls EXCEPT ![target] = Insert(ls[target], identifier.lexeme, value)]
        ELSE ls

define(ls, identifier, value) ==
    IF Len(ls) > 0
    THEN [ls EXCEPT ![Len(ls)] = Insert(ls[Len(ls)], identifier.lexeme, value)]
    ELSE ls

RECURSIVE getFrom(_, _, _)
getFrom(ls, i, lexeme) ==
    IF i = 0 THEN Err("unboud symbol '" \o lexeme \o "'")
    ELSE IF lexeme \in DOMAIN ls[i] THEN Ok(ls[i][lexeme])
    ELSE getFrom(ls, i - 1, lexeme)

\* As get, searching from the global layer upwards.
RECURSIVE getUpFrom(_, _, _)
getUpFrom(ls, i, lexeme) ==
    IF i > Len(ls) THEN Err("unboud symbol '" \o lexeme \o "'")
    ELSE IF lexeme \in DOMAIN ls[i] THEN Ok(ls[i][lexeme])
    ELSE getUpFrom(ls, i + 1, lexeme)

getGlobalFirst(ls, identifier) == getUpFrom(ls, 1, identifier.lexeme)

get(ls, identifier) == getFrom(ls, Len(ls), identifier.lexeme)

extend(ls) == Append(ls, EmptyLayer)

\* As restrictPanics, with the test layers.len() > 0.
restrictPanicsWhenEmpty(ls) == ~(Len(ls) > 0)

\* Environment::restrict panics instead of removing the global scope.
restrictPanics(ls) == ~(Len(ls) > 1)

\* Environment::restrict when it does not panic: layers.pop().
restrict(ls) == SubSeq(ls, 1, Len(ls) - 1)

(***************************************************************************)
(* Textual rendering of a value (impl ToString for MankaiObject).          *)
(***************************************************************************)
RECURSIVE to_string(_)
RECURSIVE joinFrom(_, _)
joinFrom(elems, i) ==
    IF i > Len(elems) THEN ""
    ELSE (IF i # 1 THEN " " ELSE "") \o to_string(elems[i]) \o joinFrom(elems, i + 1)

to_string(value) ==
    CASE value.t = "Number"      -> ToString(value.n)
      [] value.t = "String"      -> "\"" \o value.s \o "\""
      [] value.t = "List"        -> "(" \o joinFrom(value.l, 1) \o ")"
      [] value.t = "Bool"        -> IF value.b THEN "true" ELSE "false"
      [] value.t = "SpecialForm" -> "<special form>"
      [] value.t = "Native"      -> "<native function>"
      [] value.t = "Function"    -> "<user-defined fucntion>"

(***************************************************************************)
(* Native functions (native_functions.rs).  The numbers of the expressions *)
(* evaluated below are integers; division is applied to integers too and   *)
(* returns fractions.                                                      *)
(***************************************************************************)
RECURSIVE sumFrom(_, _, _)
sumFrom(arguments, i, acc) ==
    IF i > Len(arguments) THEN Ok(Number(acc))
    ELSE IF arguments[i].t = "Number"
         THEN sumFrom(arguments, i + 1, acc + arguments[i].n)
         ELSE Err(ToString(i) \o "-th argument of '+' must be a number!")

sum(arguments) ==
    IF arguments = <<>> THEN Err("'+' requires at least one argument!")
    ELSE sumFrom(arguments, 1, 0)

car(arguments) ==
    IF Len(arguments) # 1 THEN Err("'car' requires exectly one argument!")
    ELSE IF arguments[1].t = "List"
         THEN IF arguments[1].l = <<>>
              THEN Err("can't apply 'car' to the empty list!")
              ELSE Ok(arguments[1].l[1])
         ELSE Err("1st argument to 'car' must be a list!")

\* As cdr, with the first element left in the result.
cdrWhole(arguments) ==
    IF Len(arguments) # 1 THEN Err("'cdr' requires exectly one argument!")
    ELSE IF arguments[1].t = "List"
         THEN IF arguments[1].l = <<>>
              THEN Err("can't apply 'cdr' to the empty list!")
              ELSE Ok(List(arguments[1].l))
         ELSE Err("1st argument to 'car' must be a list!")

cdr(arguments) ==
    IF Len(arguments) # 1 THEN Err("'cdr' requires exectly one argument!")
    ELSE IF arguments[1].t = "List"
         THEN IF arguments[1].l = <<>>
              THEN Err("can't apply 'cdr' to the empty list!")
              ELSE Ok(List(Tail(arguments[1].l)))
         ELSE Err("1st argument to 'car' must be a list!")

list(arguments) == Ok(List(arguments))

\* As divisionFrom, with the positions counted from zero.
RECURSIVE divisionFromZeroBased(_, _, _)
divisionFromZeroBased(arguments, i, result) ==
    IF i > Len(arguments) THEN Ok(result)
    ELSE IF arguments[i].t = "Number"
         THEN IF arguments[i] # Number(0)
              THEN divisionFromZeroBased(arguments, i + 1,
                                         Divide(result, arguments[i]))
              ELSE Err("can't divide by zero (" \o ToString(i - 1)
                       \o "-th argument to '/' is zero)!")
         ELSE Err(ToString(i - 1) \o "-th argument to '/' must be a number!")

\* division, lines 115-136: the arguments after the first, in order.
RECURSIVE divisionFrom(_, _, _)
divisionFrom(arguments, i, result) ==
    IF i > Len(arguments) THEN Ok(result)
    ELSE IF arguments[i].t = "Number"
         THEN IF arguments[i] # Number(0)
              THEN divisionFrom(arguments, i + 1, Divide(result, arguments[i]))
              ELSE Err("can't divide by zero (" \o ToString(i)
                       \o "-th argument to '/' is zero)!")
         ELSE Err(ToString(i) \o "-th argument to '/' must be a number!")

division(arguments) ==
    IF arguments = <<>> THEN Err("'/' requires at least one argument!")
    ELSE IF arguments[1].t # "Number"
         THEN Err("1st argument to '/' must be a number!")
    ELSE IF Len(arguments) = 1 THEN Ok(Divide(Number(1), arguments[1]))
    ELSE divisionFrom(arguments, 2, arguments[1])

\* As andFrom, with every operand inspected before the result is decided.
RECURSIVE andFromEager(_, _, _)
andFromEager(arguments, i, seen) ==
    IF i > Len(arguments) THEN Ok(Bool(seen))
    ELSE IF arguments[i].t = "Bool"
         THEN andFromEager(arguments, i + 1, seen /\ arguments[i].b)
         ELSE Err(ToString(i) \o "-th argument to 'and' is not a boolean!")

\* and, lines 147-160.  seen is TRUE: the loop goes on over true only.
RECURSIVE andFrom(_, _, _)
andFrom(arguments, i, seen) ==
    IF i > Len(arguments) THEN Ok(Bool(seen))
    ELSE IF arguments[i] = Bool(FALSE) THEN Ok(Bool(FALSE))
    ELSE IF arguments[i] = Bool(TRUE) THEN andFrom(arguments, i + 1, seen)
    ELSE Err(ToString(i) \o "-th argument to 'and' is not a boolean!")

and(arguments) ==
    IF arguments = <<>> THEN Err("'and' requires at least one argument!")
    ELSE andFrom(arguments, 1, TRUE)

\* The function behind a Native value.  Only the natives the expressions of
\* this model call are given; the others are bound but never called.
NativeApply(nf, arguments) ==
    CASE nf = "+"    -> sum(arguments)
      [] nf = "car"  -> car(arguments)
      [] nf = "cdr"  -> cdr(arguments)
      [] nf = "list" -> list(arguments)

(***************************************************************************)
(* Interpreter::evaluate_atom.                                             *)
(***************************************************************************)
evaluate_atom(ls, atom) ==
    CASE atom.kind.k = "Number"     ->
             \* TokenKind::Number(n), a whole number or a decimal fraction
             Ok(IF "d" \in DOMAIN atom.kind
                THEN [t |-> "Number", n |-> atom.kind.n, d |-> atom.kind.d]
                ELSE Number(atom.kind.n))
      [] atom.kind.k = "String"     -> Ok(String(atom.kind.s))
      [] atom.kind.k = "Identifier" -> get(ls, atom)
      [] OTHER                      -> Err("failed to convert atom to value")

(***************************************************************************)
(* Pure parts of the special forms (special_forms.rs).                     *)
(***************************************************************************)
\* As identifiersFrom, with the positions in the messages counted from 0.
RECURSIVE identifiersFromZeroBased(_, _, _)
identifiersFromZeroBased(arguments_raw, i, arguments_identifiers) ==
    IF i > Len(arguments_raw) THEN Ok(arguments_identifiers)
    ELSE IF IsAtom(arguments_raw[i])
         THEN IF arguments_raw[i].atom.kind = Identifier
              THEN identifiersFromZeroBased(arguments_raw, i + 1,
                       Append(arguments_identifiers, arguments_raw[i].atom))
              ELSE Err(ToString(i - 1) \o "th argument is not an identifier!")
         ELSE Err("Expected list of arguments: " \o ToString(i - 1)
                  \o "th argument is not an identifier!")

\* lambda: the identifiers of the parameter list, or the first error.
RECURSIVE identifiersFrom(_, _, _)
identifiersFrom(arguments_raw, i, arguments_identifiers) ==
    IF i > Len(arguments_raw) THEN Ok(arguments_identifiers)
    ELSE IF IsAtom(arguments_raw[i])
         THEN IF arguments_raw[i].atom.kind = Identifier
              THEN identifiersFrom(arguments_raw, i + 1,
                       Append(arguments_identifiers, arguments_raw[i].atom))
              ELSE Err(ToString(i) \o "th argument is not an identifier!")
         ELSE Err("Expected list of arguments: " \o ToString(i)
                  \o "th argument is not an identifier!")

lambda(arguments) ==
    IF Len(arguments) # 2 THEN Err("'lambda!' requires exactly two arguments!")
    ELSE IF IsAtom(arguments[1]) THEN Err("1st argumeth")
    ELSE LET ids == identifiersFrom(arguments[1].list, 1, <<>>)
         IN  IF ids.ok THEN Ok(Function(None, ids.value, arguments[2]))
             ELSE ids

\* defun, lines 71-130: the checks of the argument list and the function.
defun(arguments) ==
    IF Len(arguments) # 3
    THEN Err("'defun!' requires exactly three arguments!")
    ELSE IF ~IsAtom(arguments[1]) \/ arguments[1].atom.kind # Identifier
    THEN Err("1st argument to 'defun!' must be an identifier!")
    ELSE IF IsAtom(arguments[2])
    THEN Err("2nd argument to 'defun!' must be a list of identifiers!")
    ELSE LET ids == identifiersFrom(arguments[2].list, 1, <<>>)
         IN  IF ids.ok
             THEN Ok(Function(Some(arguments[1].atom.lexeme), ids.value,
                              arguments[3]))
             ELSE ids

\* define, lines 10-34: the token to bind, or the error that rejects the
\* argument list.
defineName(arguments) ==
    IF Len(arguments) # 2 THEN Err("expected exacly two arguments to 'set!'")
    ELSE IF ~IsAtom(arguments[1])
         THEN Err("expected identifier as first argument to 'set!'")
    ELSE IF arguments[1].atom.kind # Identifier
         THEN Err("'" \o arguments[1].atom.lexeme \o "' is not an identifier!")
    ELSE Ok(arguments[1].atom)

\* Interpreter::is_special_form, is_native_fucntion, is_constant: the
\* reserved names of Interpreter::default, which are the names
\* Environment::new binds.
is_special_form(identifier) == identifier.lexeme \in special_forms
is_native_fucntion(identifier) == identifier.lexeme \in native_functions
is_constant(identifier) == identifier.lexeme \in constants

\* As reservedError, with the messages of the native functions and of the
\* constants exchanged.
reservedErrorSwapped(name) ==
    IF is_special_form(name)
    THEN <<Err("can't assign to '" \o name.lexeme
               \o "' because the name is reserved for a special form!")>>
    ELSE IF is_native_fucntion(name)
    THEN <<Err("can't assign to '" \o name.lexeme
               \o "' because the name is reserved for a constant!")>>
    ELSE IF is_constant(name)
    THEN <<Err("can't assign to '" \o name.lexeme
               \o "' because the name is reserved for a native function!")>>
    ELSE <<>>

\* As reservedError, with no name reserved.
reservedErrorNone(name) == <<>>

\* define, lines 36-55: <<the error that rejects a reserved name>>, <<>>
\* for a name that is not reserved.
reservedError(name) ==
    IF is_special_form(name)
    THEN <<Err("can't assign to '" \o name.lexeme
               \o "' because the name is reserved for a special form!")>>
    ELSE IF is_native_fucntion(name)
    THEN <<Err("can't assign to '" \o name.lexeme
               \o "' because the name is reserved for a native function!")>>
    ELSE IF is_constant(name)
    THEN <<Err("can't assign to '" \o name.lexeme
               \o "' because the name is reserved for a constant!")>>
    ELSE <<>>

\* As arityError, with the two counts exchanged.
arityErrorSwapped(callee, arguments) ==
    Err("found " \o ToString(Len(callee.arguments_identifiers))
        \o " arguments but '"
        \o (IF callee.name.some THEN callee.name.v ELSE "anonymous function")
        \o "' requires " \o ToString(Len(arguments)) \o "!")

\* MankaiObject::call, lines 126-139: the arity check of a user-defined
\* function.
arityError(callee, arguments) ==
    Err("found " \o ToString(Len(arguments)) \o " arguments but '"
        \o (IF callee.name.some THEN callee.name.v ELSE "anonymous function")
        \o "' requires " \o ToString(Len(callee.arguments_identifiers)) \o "!")

\* As bindFrom, with the arguments taken from the last to the first.
RECURSIVE bindFromReversed(_, _, _, _)
bindFromReversed(ls, arguments_identifiers, arguments, i) ==
    IF i > Len(arguments_identifiers) \/ i > Len(arguments) THEN ls
    ELSE bindFromReversed(
             define(ls, arguments_identifiers[i],
                    arguments[Len(arguments) + 1 - i]),
             arguments_identifiers, arguments, i + 1)

\* MankaiObject::call, lines 141-146: a new layer binding every parameter to
\* its argument.
RECURSIVE bindFrom(_, _, _, _)
bindFrom(ls, arguments_identifiers, arguments, i) ==
    IF i > Len(arguments_identifiers) \/ i > Len(arguments) THEN ls
    ELSE bindFrom(define(ls, arguments_identifiers[i], arguments[i]),
                  arguments_identifiers, arguments, i + 1)

\* As callLayers, with the new layer put on the global layer alone, as if
\* the function had been created at top level and had kept that environment.
callLayersFromGlobal(ls, callee, arguments) ==
    bindFrom(extend(SubSeq(ls, 1, 1)), callee.arguments_identifiers,
             arguments, 1)

\* As callLayers, without the new layer: the parameters are bound in the
\* layer of the caller.
callLayersNoExtend(ls, callee, arguments) ==
    bindFrom(ls, callee.arguments_identifiers, arguments, 1)

callLayers(ls, callee, arguments) ==
    bindFrom(extend(ls), callee.arguments_identifiers, arguments, 1)

\* As notCallable, without the text of the value.
notCallableUnnamed(callee) == Err("value is not callable!")

notCallable(callee) == Err("'" \o to_string(callee) \o "' is not callable!")

(***************************************************************************)
(* The evaluator.  ctrl is one of                                          *)
(*   [mode |-> "idle"]                                                     *)
(*   [mode |-> "evaluate", expr, act]      evaluate(expr) was entered      *)
(*   [mode |-> "special_form", sf, arguments, act]                         *)
(*                                         the handler sf is to be invoked *)
(*   [mode |-> "call", callee, arguments, act]                             *)
(*                                         callee.call is to be invoked    *)
(*   [mode |-> "return", result, act]      activation act returned result  *)
(* and act is the index in acts of the evaluate() activation at work.      *)
(***************************************************************************)
NewAct(parent, idx, expr) ==
    [parent |-> parent,   \* the activation that entered this one, 0 at top
     idx |-> idx,         \* position of expr in the parent's list (1 is the
                          \* head), 0 for a function body and at top level
     expr |-> expr,
     ret |-> <<>>,        \* <<result>> once the activation has returned
     invoked |-> 0]       \* number of activations entered when the callee or
                          \* the special form of this list was invoked, 0
                          \* when it was not

Entered(as, expr, parent, idx) == Append(as, NewAct(parent, idx, expr))
Returned(as, a, result) == [as EXCEPT ![a].ret = <<result>>]
Invoked(as, a) == [as EXCEPT ![a].invoked = Len(as)]

\* The activations entered on behalf of activation a, and those among them
\* that evaluate the element idx of its list.
Kids(a) == {c \in DOMAIN acts : acts[c].parent = a}
Kid(a, idx) == {c \in Kids(a) : acts[c].idx = idx}
HasReturned(a) == acts[a].ret # <<>>
Failed(a) == HasReturned(a) /\ ~acts[a].ret[1].ok

Evaluating(expr, a) == [mode |-> "evaluate", expr |-> expr, act |-> a]
Returning(result, a) == [mode |-> "return", result |-> result, act |-> a]

Idle == ctrl.mode = "idle" /\ stack = <<>>
Top == stack[Len(stack)]
Pop == SubSeq(stack, 1, Len(stack) - 1)
Running == panic = ""
AtReturn(k) ==
    Running /\ ctrl.mode = "return" /\ stack # <<>> /\ Top.k = k

\* A front end hands one expression to Interpreter::evaluate.
Evaluate(expr) ==
    /\ Running /\ Idle
    /\ nEvals < MaxEvals
    /\ nEvals' = nEvals + 1
    /\ acts' = Entered(<<>>, expr, 0, 0)
    /\ ctrl' = Evaluating(expr, 1)
    /\ UNCHANGED <<layers, panic, stack, lastOp, snaps>>
    /\ UNCHANGED tables

\* evaluate on Sexp::Atom.
EvaluateAtom ==
    /\ Running /\ ctrl.mode = "evaluate" /\ IsAtom(ctrl.expr)
    /\ LET result == evaluate_atom(layers, ctrl.expr.atom)
       IN  /\ acts' = Returned(acts, ctrl.act, result)
           /\ ctrl' = Returning(result, ctrl.act)
    /\ UNCHANGED <<layers, panic, stack, nEvals, lastOp, snaps>>
    /\ UNCHANGED tables

\* evaluate on Sexp::List: evaluate_list starts with the head.
EvaluateList ==
    /\ Running /\ ctrl.mode = "evaluate" /\ ~IsAtom(ctrl.expr)
    /\ IF ctrl.expr.list = <<>>
       THEN /\ panic' = "called Option::unwrap() on a None value"
            /\ UNCHANGED <<ctrl, stack, acts>>
       ELSE /\ stack' = Append(stack, [k |-> "callee", act |-> ctrl.act,
                                       list |-> ctrl.expr.list])
            /\ acts' = Entered(acts, ctrl.expr.list[1], ctrl.act, 1)
            /\ ctrl' = Evaluating(ctrl.expr.list[1], Len(acts) + 1)
            /\ UNCHANGED panic
    /\ UNCHANGED <<layers, nEvals, lastOp, snaps>>
    /\ UNCHANGED tables

\* evaluate_list, lines 247-258: the head has been evaluated.
ReturnCallee ==
    /\ AtReturn("callee")
    /\ LET a == Top.act
           arguments == Tail(Top.list)
           callee == ctrl.result.value
       IN  IF ~ctrl.result.ok
           THEN /\ stack' = Pop
                /\ acts' = Returned(acts, a, ctrl.result)
                /\ ctrl' = Returning(ctrl.result, a)
           ELSE IF callee.t = "SpecialForm"
           THEN /\ stack' = Pop
                /\ ctrl' = [mode |-> "special_form", sf |-> callee.sf,
                            arguments |-> arguments, act |-> a]
                /\ UNCHANGED acts
           ELSE IF arguments = <<>>
           THEN /\ stack' = Pop
                /\ ctrl' = [mode |-> "call", callee |-> callee,
                            arguments |-> <<>>, act |-> a]
                /\ UNCHANGED acts
           ELSE /\ stack' = Append(Pop, [k |-> "argument", act |-> a,
                                         callee |-> callee,
                                         arguments |-> arguments,
                                         evaluated_arguments |-> <<>>])
                /\ acts' = Entered(acts, arguments[1], a, 2)
                /\ ctrl' = Evaluating(arguments[1], Len(acts) + 1)
    /\ UNCHANGED <<layers, panic, nEvals, lastOp, snaps>>
    /\ UNCHANGED tables

\* As ReturnArgument, with an argument that fails left out of the
\* arguments (if let Ok(value) = self.evaluate(expr) in place of ?).
ReturnArgumentSkipping ==
    /\ AtReturn("argument")
    /\ LET a == Top.act
           evaluated_arguments ==
               IF ctrl.result.ok
               THEN Append(Top.evaluated_arguments, ctrl.result.value)
               ELSE Top.evaluated_arguments
           c == CHOOSE c \in Kids(a) : c = ctrl.act
           n == acts[c].idx - 1
       IN  IF n < Len(Top.arguments)
           THEN /\ stack' = Append(Pop,
                     [Top EXCEPT !.evaluated_arguments = evaluated_arguments])
                /\ acts' = Entered(acts, Top.arguments[n + 1], a, n + 2)
                /\ ctrl' = Evaluating(Top.arguments[n + 1], Len(acts) + 1)
           ELSE /\ stack' = Pop
                /\ ctrl' = [mode |-> "call", callee |-> Top.callee,
                            arguments |-> evaluated_arguments, act |-> a]
                /\ UNCHANGED acts
    /\ UNCHANGED <<layers, panic, nEvals, lastOp, snaps>>
    /\ UNCHANGED tables

\* evaluate_list, lines 255-261: one argument has been evaluated.
ReturnArgument ==
    /\ AtReturn("argument")
    /\ LET a == Top.act
           evaluated_arguments ==
               Append(Top.evaluated_arguments, ctrl.result.value)
           n == Len(evaluated_arguments)
       IN  IF ~ctrl.result.ok
           THEN /\ stack' = Pop
                /\ acts' = Returned(acts, a, ctrl.result)
                /\ ctrl' = Returning(ctrl.result, a)
           ELSE IF n < Len(Top.arguments)
           THEN /\ stack' = Append(Pop,
                     [Top EXCEPT !.evaluated_arguments = evaluated_arguments])
                /\ acts' = Entered(acts, Top.arguments[n + 1], a, n + 2)
                /\ ctrl' = Evaluating(Top.arguments[n + 1], Len(acts) + 1)
           ELSE /\ stack' = Pop
                /\ ctrl' = [mode |-> "call", callee |-> Top.callee,
                            arguments |-> evaluated_arguments, act |-> a]
                /\ UNCHANGED acts
    /\ UNCHANGED <<layers, panic, nEvals, lastOp, snaps>>
    /\ UNCHANGED tables

\* The frames of the calls of user-defined functions in progress.
BodyFrames == {i \in DOMAIN stack : stack[i].k = "body"}

AtCall(t) == Running /\ ctrl.mode = "call" /\ ctrl.callee.t \in t

\* MankaiObject::call on a Native.
CallNative ==
    /\ AtCall({"Native"})
    /\ LET result == NativeApply(ctrl.callee.nf, ctrl.arguments)
       IN  /\ acts' = Returned(Invoked(acts, ctrl.act), ctrl.act, result)
           /\ ctrl' = Returning(result, ctrl.act)
    /\ UNCHANGED <<layers, panic, stack, nEvals, lastOp, snaps>>
    /\ UNCHANGED tables

\* MankaiObject::call on a Function: the arity check, then the new layer
\* and the body.
CallFunction ==
    /\ AtCall({"Function"})
    /\ IF Len(ctrl.callee.arguments_identifiers) # Len(ctrl.arguments)
       THEN LET result == arityError(ctrl.callee, ctrl.arguments)
            IN  /\ acts' = Returned(Invoked(acts, ctrl.act), ctrl.act, result)
                /\ ctrl' = Returning(result, ctrl.act)
                /\ UNCHANGED <<layers, stack>>
       ELSE /\ Cardinality(BodyFrames) < MaxCalls
            /\ layers' = callLayers(layers, ctrl.callee, ctrl.arguments)
            \* depth and saved are history: the layers at the call
            /\ stack' = Append(stack, [k |-> "body", act |-> ctrl.act,
                                       depth |-> Len(layers),
                                       saved |-> layers])
            /\ acts' = Entered(Invoked(acts, ctrl.act), ctrl.callee.body,
                               ctrl.act, 0)
            /\ ctrl' = Evaluating(ctrl.callee.body, Len(acts) + 1)
    /\ UNCHANGED <<panic, nEvals, lastOp, snaps>>
    /\ UNCHANGED tables

\* MankaiObject::call on any other value.
CallNotCallable ==
    /\ AtCall({"Number", "String", "List", "Bool", "SpecialForm"})
    /\ LET result == notCallable(ctrl.callee)
       IN  /\ acts' = Returned(Invoked(acts, ctrl.act), ctrl.act, result)
           /\ ctrl' = Returning(result, ctrl.act)
    /\ UNCHANGED <<layers, panic, stack, nEvals, lastOp, snaps>>
    /\ UNCHANGED tables

\* As ReturnBody, with the failure of the body propagated at once
\* (evaluate(body)? in place of evaluate(body)): restrict is skipped.
ReturnBodyPropagating ==
    /\ AtReturn("body")
    /\ IF ctrl.result.ok
       THEN /\ layers' = restrict(layers)
       ELSE /\ UNCHANGED layers
    /\ stack' = Pop
    /\ acts' = Returned(acts, Top.act, ctrl.result)
    /\ ctrl' = Returning(ctrl.result, Top.act)
    /\ UNCHANGED <<panic, nEvals, lastOp, snaps>>
    /\ UNCHANGED tables

\* MankaiObject::call, lines 149-153: the body has been evaluated.
ReturnBody ==
    /\ AtReturn("body")
    /\ IF restrictPanics(layers)
       THEN /\ panic' = "trying to remove global scope"
            /\ UNCHANGED <<layers, ctrl, stack, acts>>
       ELSE /\ layers' = restrict(layers)
            /\ stack' = Pop
            /\ acts' = Returned(acts, Top.act, ctrl.result)
            /\ ctrl' = Returning(ctrl.result, Top.act)
            /\ UNCHANGED panic
    /\ UNCHANGED <<nEvals, lastOp, snaps>>
    /\ UNCHANGED tables

AtSpecialForm(sf) == Running /\ ctrl.mode = "special_form" /\ ctrl.sf = sf

\* if_special_form, lines 150-156: the arity check, then the condition.
IfSpecialForm ==
    /\ AtSpecialForm("if_special_form")
    /\ IF Len(ctrl.arguments) # 3
       THEN LET result == Err("'if!' requires exactly three arguments!")
            IN  /\ acts' = Returned(Invoked(acts, ctrl.act), ctrl.act, result)
                /\ ctrl' = Returning(result, ctrl.act)
                /\ UNCHANGED stack
       ELSE /\ stack' = Append(stack, [k |-> "condition", act |-> ctrl.act,
                                       arguments |-> ctrl.arguments])
            /\ acts' = Entered(Invoked(acts, ctrl.act), ctrl.arguments[1],
                               ctrl.act, 2)
            /\ ctrl' = Evaluating(ctrl.arguments[1], Len(acts) + 1)
    /\ UNCHANGED <<layers, panic, nEvals, lastOp, snaps>>
    /\ UNCHANGED tables

\* As branchOf, with every value but false taken for true.
branchOfTruthy(condition) ==
    IF condition = Bool(FALSE) THEN 3 ELSE 2

\* The branch if_special_form evaluates for a condition: 2 is the "then"
\* argument, 3 the "else" argument, 0 is none (lines 159-165).
branchOf(condition) ==
    IF condition = Bool(TRUE) THEN 2
    ELSE IF condition = Bool(FALSE) THEN 3
    ELSE 0

\* if_special_form, lines 156-165: the condition has been evaluated.
ReturnCondition ==
    /\ AtReturn("condition")
    /\ LET a == Top.act
           b == branchOf(ctrl.result.value)
           result == Err("1st argument to 'if!' must evaluate to a boolean!")
       IN  IF ~ctrl.result.ok
           THEN /\ stack' = Pop
                /\ acts' = Returned(acts, a, ctrl.result)
                /\ ctrl' = Returning(ctrl.result, a)
           ELSE IF b # 0
           THEN /\ stack' = Append(Pop, [k |-> "branch", act |-> a])
                /\ acts' = Entered(acts, Top.arguments[b], a, b + 1)
                /\ ctrl' = Evaluating(Top.arguments[b], Len(acts) + 1)
           ELSE /\ stack' = Pop
                /\ acts' = Returned(acts, a, result)
                /\ ctrl' = Returning(result, a)
    /\ UNCHANGED <<layers, panic, nEvals, lastOp, snaps>>
    /\ UNCHANGED tables

\* As ReturnBranch, with the failure of a branch reported as a failure of
\* the form.
ReturnBranchWrapping ==
    /\ AtReturn("branch")
    /\ LET result == IF ctrl.result.ok THEN ctrl.result
                     ELSE Err("'if!' failed: " \o ctrl.result.message)
       IN  /\ stack' = Pop
           /\ acts' = Returned(acts, Top.act, result)
           /\ ctrl' = Returning(result, Top.act)
    /\ UNCHANGED <<layers, panic, nEvals, lastOp, snaps>>
    /\ UNCHANGED tables

\* if_special_form, lines 160-161: the value of the branch is the value of
\* the form.
ReturnBranch ==
    /\ AtReturn("branch")
    /\ stack' = Pop
    /\ acts' = Returned(acts, Top.act, ctrl.result)
    /\ ctrl' = Returning(ctrl.result, Top.act)
    /\ UNCHANGED <<layers, panic, nEvals, lastOp, snaps>>
    /\ UNCHANGED tables

\* The lambda special form.
Lambda ==
    /\ AtSpecialForm("lambda")
    /\ LET result == lambda(ctrl.arguments)
       IN  /\ acts' = Returned(Invoked(acts, ctrl.act), ctrl.act, result)
           /\ ctrl' = Returning(result, ctrl.act)
    /\ UNCHANGED <<layers, panic, stack, nEvals, lastOp, snaps>>
    /\ UNCHANGED tables

\* The set special form: the checks of the argument list, then the value
\* expression.  It binds any identifier, reserved or not.
Set ==
    /\ AtSpecialForm("set")
    /\ LET name == defineName(ctrl.arguments)
       IN  IF ~name.ok
           THEN /\ acts' = Returned(Invoked(acts, ctrl.act), ctrl.act, name)
                /\ ctrl' = Returning(name, ctrl.act)
                /\ UNCHANGED stack
           ELSE /\ stack' = Append(stack, [k |-> "value", act |-> ctrl.act,
                                           name |-> name.value])
                /\ acts' = Entered(Invoked(acts, ctrl.act), ctrl.arguments[2],
                                   ctrl.act, 3)
                /\ ctrl' = Evaluating(ctrl.arguments[2], Len(acts) + 1)
    /\ UNCHANGED <<layers, panic, nEvals, lastOp, snaps>>
    /\ UNCHANGED tables

\* As Define, without the check of the reserved names.
DefineUnchecked ==
    /\ AtSpecialForm("define")
    /\ LET name == defineName(ctrl.arguments)
       IN  IF ~name.ok
           THEN /\ acts' = Returned(Invoked(acts, ctrl.act), ctrl.act, name)
                /\ ctrl' = Returning(name, ctrl.act)
                /\ UNCHANGED stack
           ELSE /\ stack' = Append(stack, [k |-> "value", act |-> ctrl.act,
                                           name |-> name.value])
                /\ acts' = Entered(Invoked(acts, ctrl.act), ctrl.arguments[2],
                                   ctrl.act, 3)
                /\ ctrl' = Evaluating(ctrl.arguments[2], Len(acts) + 1)
    /\ UNCHANGED <<layers, panic, nEvals, lastOp, snaps>>
    /\ UNCHANGED tables

\* define, lines 10-58: the checks of the argument list and of the name,
\* then the value expression.
Define ==
    /\ AtSpecialForm("define")
    /\ LET name == defineName(ctrl.arguments)
           result == IF ~name.ok THEN <<name>> ELSE reservedError(name.value)
       IN  IF result # <<>>
           THEN /\ acts' = Returned(Invoked(acts, ctrl.act), ctrl.act, result[1])
                /\ ctrl' = Returning(result[1], ctrl.act)
                /\ UNCHANGED stack
           ELSE /\ stack' = Append(stack, [k |-> "value", act |-> ctrl.act,
                                           name |-> name.value])
                /\ acts' = Entered(Invoked(acts, ctrl.act), ctrl.arguments[2],
                                   ctrl.act, 3)
                /\ ctrl' = Evaluating(ctrl.arguments[2], Len(acts) + 1)
    /\ UNCHANGED <<layers, panic, nEvals, lastOp, snaps>>
    /\ UNCHANGED tables

\* As ReturnValue, without the binding.
ReturnValueUnbound ==
    /\ AtReturn("value")
    /\ stack' = Pop
    /\ acts' = Returned(acts, Top.act, ctrl.result)
    /\ ctrl' = Returning(ctrl.result, Top.act)
    /\ UNCHANGED <<layers, panic, nEvals, lastOp, snaps>>
    /\ UNCHANGED tables

\* As ReturnValue, binding in the global layer.
ReturnValueGlobal ==
    /\ AtReturn("value")
    /\ stack' = Pop
    /\ acts' = Returned(acts, Top.act, ctrl.result)
    /\ ctrl' = Returning(ctrl.result, Top.act)
    /\ IF ctrl.result.ok
       THEN layers' = defineGlobal(layers, Top.name, ctrl.result.value)
       ELSE UNCHANGED layers
    /\ UNCHANGED <<panic, nEvals, lastOp, snaps>>
    /\ UNCHANGED tables

\* As ReturnValue, but a reserved name that is bound stops being reserved.
ReturnValueReleasing ==
    /\ AtReturn("value")
    /\ stack' = Pop
    /\ acts' = Returned(acts, Top.act, ctrl.result)
    /\ ctrl' = Returning(ctrl.result, Top.act)
    /\ IF ctrl.result.ok
       THEN /\ layers' = define(layers, Top.name, ctrl.result.value)
            /\ special_forms' = special_forms \ {Top.name.lexeme}
            /\ native_functions' = native_functions \ {Top.name.lexeme}
            /\ constants' = constants \ {Top.name.lexeme}
       ELSE UNCHANGED <<layers, special_forms, native_functions, constants>>
    /\ UNCHANGED <<panic, nEvals, lastOp, snaps>>

\* define, lines 57-63: the value has been evaluated and is bound.
ReturnValue ==
    /\ AtReturn("value")
    /\ stack' = Pop
    /\ acts' = Returned(acts, Top.act, ctrl.result)
    /\ ctrl' = Returning(ctrl.result, Top.act)
    /\ IF ctrl.result.ok
       THEN layers' = define(layers, Top.name, ctrl.result.value)
       ELSE UNCHANGED layers
    /\ UNCHANGED <<panic, nEvals, lastOp, snaps>>
    /\ UNCHANGED tables

\* As Defun, binding the function in the global layer.
DefunGlobal ==
    /\ AtSpecialForm("defun")
    /\ LET result == defun(ctrl.arguments)
       IN  /\ acts' = Returned(Invoked(acts, ctrl.act), ctrl.act, result)
           /\ ctrl' = Returning(result, ctrl.act)
           /\ IF result.ok
              THEN layers' = defineGlobal(layers,
                                 Token(result.value.name.v, Identifier),
                                 result.value)
              ELSE UNCHANGED layers
    /\ UNCHANGED <<panic, stack, nEvals, lastOp, snaps>>
    /\ UNCHANGED tables

\* defun: the function is built and bound to its name; nothing is
\* evaluated.
Defun ==
    /\ AtSpecialForm("defun")
    /\ LET result == defun(ctrl.arguments)
       IN  /\ acts' = Returned(Invoked(acts, ctrl.act), ctrl.act, result)
           /\ ctrl' = Returning(result, ctrl.act)
           /\ IF result.ok
              THEN layers' = define(layers,
                                 Token(result.value.name.v, Identifier),
                                 result.value)
              ELSE UNCHANGED layers
    /\ UNCHANGED <<panic, stack, nEvals, lastOp, snaps>>
    /\ UNCHANGED tables

\* As Finish, for a front end that starts from a new environment after a
\* failed evaluation.
FinishRollingBack ==
    /\ Running /\ ctrl.mode = "return" /\ stack = <<>>
    /\ ctrl' = [mode |-> "idle"]
    /\ acts' = <<>>
    /\ layers' = IF ctrl.result.ok THEN layers ELSE EnvironmentNew
    /\ UNCHANGED <<panic, stack, nEvals, lastOp, snaps>>
    /\ UNCHANGED tables

\* The front end takes the result of the evaluation (mankairepl.rs, run).
Finish ==
    /\ Running /\ ctrl.mode = "return" /\ stack = <<>>
    /\ ctrl' = [mode |-> "idle"]
    /\ acts' = <<>>
    /\ UNCHANGED <<layers, panic, stack, nEvals, lastOp, snaps>>
    /\ UNCHANGED tables

(***************************************************************************)
(* The expressions a session evaluates.  Every list has a head, as every   *)
(* list of the parser has.                                                 *)
(***************************************************************************)
L(seq) == SexpList(seq)
SetForm(lexeme, expr) == L(<<Id("set!"), Id(lexeme), expr>>)
LambdaForm(params, body) == L(<<Id("lambda!"), L(params), body>>)
IfForm(c, t, e) == L(<<Id("if!"), c, t, e>>)
DefineForm(lexeme, expr) == L(<<Id("define!"), Id(lexeme), expr>>)

\* A function that reads the free identifier a is called by a function that
\* has a parameter a.
CallUnderA ==
    L(<<LambdaForm(<<Id("f")>>,
            L(<<LambdaForm(<<Id("a")>>, L(<<Id("f"), Num(0)>>)), Num(5)>>)),
        LambdaForm(<<Id("u")>>, Id("a"))>>)
\* A function that reads a is created in a call that binds a, and is called
\* when that call has returned.
CallAfterA ==
    L(<<L(<<LambdaForm(<<Id("a")>>, LambdaForm(<<Id("u")>>, Id("a"))), Num(5)>>),
        Num(0)>>)

AddXY  == LambdaForm(<<Id("x"), Id("y")>>, L(<<Id("+"), Id("x"), Id("y")>>))

\* An argument binds a, the next argument fails.
SetThenFail == L(<<Id("list"), SetForm("a", Num(9)), Id("oof")>>)

\* The body of a function binds a and reads it.
SetInCall ==
    L(<<LambdaForm(<<Id("x")>>, L(<<Id("list"), SetForm("a", Id("x")), Id("a")>>)),
        Num(5)>>)
\* A function that has a parameter a calls a function that binds a, and
\* reads a afterwards.
SetUnderA ==
    L(<<LambdaForm(<<Id("a")>>,
            L(<<Id("list"),
                L(<<LambdaForm(<<Id("x")>>, SetForm("a", Id("x"))), Num(5)>>),
                Id("a")>>)),
        Num(7)>>)
\* The body of a function binds b with define! and reads it.
DefineInCall ==
    L(<<LambdaForm(<<Id("x")>>,
            L(<<Id("list"), L(<<Id("define!"), Id("b"), Id("x")>>), Id("b")>>)),
        Num(6)>>)
SetA1  == SetForm("a", Num(1))
SetB2  == SetForm("b", Num(2))

\* A failure under an argument list, a function body, a branch of if! and
\* the value expression of set!.
FailDeep ==
    SetForm("c",
        IfForm(Id("true"),
               L(<<LambdaForm(<<Id("x")>>,
                       L(<<Id("list"), Id("x"), L(<<Id("car"), Id("x")>>),
                           SetA1>>)),
                   Num(1)>>),
               SetB2))

Atoms == {Num(5), Str("foo"), Id("oof"), Id("a"), Id("b")}

Calls ==
    { L(<<Id("+"), Num(1), Num(2)>>),
      L(<<Id("list")>>),
      L(<<Num(1), SetA1>>),
      L(<<Num(1), Id("oof")>>),
      L(<<Str("foo"), Num(1)>>),
      L(<<Id("true")>>),
      L(<<L(<<Id("list"), Num(1), Str("s"), L(<<Id("list"), Id("false")>>)>>),
          Num(3)>>),
      L(<<Id("list"), SetA1, Id("oof"), SetB2>>),
      SetThenFail,
      L(<<Id("list"), SetA1, SetForm("a", Num(2)), Id("a")>>),
      L(<<AddXY, Num(1), Num(2)>>),
      L(<<AddXY, Num(1)>>),
      L(<<Id("my-addition"), Num(1), Num(2)>>),
      L(<<Id("my-addition"), Num(1), Num(2), Num(3)>>),
      L(<<LambdaForm(<<Id("x")>>, Id("oof")), Num(1)>>),
      L(<<LambdaForm(<<Id("a")>>, Id("a")), Num(7)>>),
      CallUnderA,
      CallAfterA,
      SetInCall,
      SetUnderA,
      DefineInCall,
      L(<<LambdaForm(<<Id("x"), Id("x")>>, Id("x")), Num(1), Num(2)>>),
      L(<<LambdaForm(<<Id("x"), Id("y")>>, L(<<Id("list"), Id("y"), Id("x")>>)),
          Num(1), Str("s")>>),
      L(<<LambdaForm(<<Id("x")>>, SetForm("a", Id("x"))), Num(5)>>),
      L(<<LambdaForm(<<Id("x")>>,
            L(<<LambdaForm(<<Id("y")>>, L(<<Id("+"), Id("x"), Id("y")>>)),
                Num(2)>>)), Num(1)>>),
      L(<<LambdaForm(<<Id("x")>>,
            L(<<LambdaForm(<<Id("y")>>, L(<<Id("car"), Id("y")>>)),
                Id("x")>>)), Num(1)>>),
      L(<<Id("walk"), L(<<Id("list"), Num(1), Num(2)>>)>>),
      L(<<Id("loop"), Num(1)>>),
      L(<<L(<<Id("mk"), Num(1)>>), Num(2)>>) }

Forms ==
    { SetA1,
      SetForm("walk", LambdaForm(<<Id("l")>>,
          L(<<Id("walk"), L(<<Id("cdr"), Id("l")>>)>>))),
      SetForm("loop", LambdaForm(<<Id("x")>>, L(<<Id("loop"), Id("x")>>))),
      SetForm("mk", LambdaForm(<<Id("x")>>, LambdaForm(<<Id("y")>>, Id("x")))),
      SetForm("+", Num(1)),
      L(<<Id("list"), SetForm("+", Str("plus")), Id("+")>>),
      SetForm("c", L(<<Id("list"), SetA1, Id("c")>>)),
      DefineForm("a", Num(3)),
      DefineForm("a", L(<<Id("list"), SetB2, DefineForm("b", Num(4))>>)),
      DefineForm("c", Id("oof")),
      DefineForm("if!", Num(1)),
      DefineForm("+", Num(1)),
      DefineForm("true", Num(1)),
      DefineForm("define!", Num(1)),
      L(<<Id("define!"), Id("a")>>),
      L(<<Id("define!"), L(<<Id("a")>>), Num(1)>>),
      L(<<Id("define!"), Str("a"), Num(1)>>),
      L(<<Id("set!"), Id("a")>>),
      L(<<Id("set!"), L(<<Id("a")>>), Num(1)>>),
      L(<<Id("set!"), Num(1), Num(2)>>),
      LambdaForm(<<Id("x"), Num(1)>>, Id("x")),
      LambdaForm(<<L(<<Id("x")>>), Id("y")>>, SetA1),
      L(<<Id("lambda!"), Id("x"), Id("x")>>),
      L(<<Id("lambda!"), L(<<Id("x")>>)>>),
      IfForm(Id("true"), Str("a"), Id("oof")),
      IfForm(Id("true"), Id("oof"), SetB2),
      FailDeep,
      IfForm(Id("false"), Id("oof"), Str("b")),
      IfForm(Id("true"), SetA1, SetB2),
      IfForm(Id("false"), SetA1, SetB2),
      IfForm(Num(1), SetA1, SetB2),
      IfForm(Id("oof"), SetA1, SetB2),
      L(<<Id("if!"), Id("true"), Num(1)>>) }

Programs == Atoms \cup Calls \cup Forms

\* The binding interpreter_test::anonymous_function_call makes before it
\* evaluates: a function that has a name.
MyAddition ==
    Function(Some("my-addition"),
             <<Token("first", Identifier), Token("second", Identifier)>>,
             L(<<Id("+"), Id("first"), Id("second")>>))

DefineMyAddition ==
    /\ Running /\ Idle
    /\ nEvals = 0
    /\ "my-addition" \notin DOMAIN layers[1]
    /\ layers' = define(layers, Token("my-addition", Identifier), MyAddition)
    /\ UNCHANGED <<panic, ctrl, stack, acts, nEvals, lastOp, snaps>>
    /\ UNCHANGED tables

\* define! is bound to the handler define.
BindDefine ==
    /\ Running /\ Idle
    /\ nEvals = 0
    /\ "define!" \notin DOMAIN layers[1]
    /\ layers' = define(layers, Token("define!", Identifier),
                        SpecialForm("define"))
    /\ UNCHANGED <<panic, ctrl, stack, acts, nEvals, lastOp, snaps>>
    /\ UNCHANGED tables

(***************************************************************************)
(* A client of the Environment alone: the methods define, get, extend and  *)
(* restrict called in any order, as environment_test does.                 *)
(***************************************************************************)
EnvIds  == {"foo", "bar"}
EnvVals == {Number(6), String("baz")}
\* identifiers whose visibility is observed
Probes  == EnvIds \cup {"+", "oof"}

Lookups(ls) == [lexeme \in Probes |-> get(ls, Token(lexeme, Identifier))]

EnvDefine(lexeme, value) ==
    /\ Running /\ Idle
    /\ IF definePanics(layers)
       THEN panic' = "the environment has no layer!" /\ UNCHANGED layers
       ELSE /\ layers' = define(layers, Token(lexeme, Identifier), value)
            /\ UNCHANGED panic
    /\ lastOp' = [op |-> "define", lexeme |-> lexeme, value |-> value]
    /\ UNCHANGED <<ctrl, stack, acts, nEvals, snaps>>
    /\ UNCHANGED tables

EnvGet(lexeme) ==
    /\ Running /\ Idle
    /\ lastOp' = [op |-> "get", lexeme |-> lexeme,
                  result |-> get(layers, Token(lexeme, Identifier)),
                  \* the define this get directly follows, if it does
                  after |-> IF lastOp.op = "define"
                            THEN <<lastOp.lexeme, lastOp.value>> ELSE <<>>]
    /\ UNCHANGED <<layers, panic, ctrl, stack, acts, nEvals, snaps>>
    /\ UNCHANGED tables

EnvExtend ==
    /\ Running /\ Idle
    /\ Len(layers) < MaxLayers
    /\ layers' = extend(layers)
    /\ snaps' = Append(snaps, Lookups(layers))
    /\ lastOp' = [op |-> "extend"]
    /\ UNCHANGED <<panic, ctrl, stack, acts, nEvals>>
    /\ UNCHANGED tables

EnvRestrict ==
    /\ Running /\ Idle
    /\ IF restrictPanics(layers)
       THEN /\ panic' = "trying to remove global scope"
            /\ lastOp' = [op |-> "restrict", removed |-> <<>>]
            /\ UNCHANGED <<layers, snaps>>
       ELSE /\ layers' = restrict(layers)
            /\ snaps' = SubSeq(snaps, 1, Len(snaps) - 1)
            \* the layer this restrict removed
            /\ lastOp' = [op |-> "restrict",
                          removed |-> <<layers[Len(layers)]>>]
            /\ UNCHANGED panic
    /\ UNCHANGED <<ctrl, stack, acts, nEvals>>
    /\ UNCHANGED tables

Init ==
    /\ layers = EnvironmentNew
    /\ panic = ""
    /\ ctrl = [mode |-> "idle"]
    /\ stack = <<>>
    /\ acts = <<>>
    /\ nEvals = 0
    /\ lastOp = [op |-> "new"]
    /\ snaps = <<>>
    /\ special_forms = SpecialFormNames
    /\ native_functions = NativeNames
    /\ constants = ConstantNames

NextEnv ==
    \/ \E lexeme \in EnvIds, value \in EnvVals : EnvDefine(lexeme, value)
    \/ \E lexeme \in Probes : EnvGet(lexeme)
    \/ EnvExtend
    \/ EnvRestrict

NextEval ==
    \/ DefineMyAddition
    \/ BindDefine
    \/ \E expr \in Programs : Evaluate(expr)
    \/ EvaluateAtom
    \/ EvaluateList
    \/ ReturnCallee
    \/ ReturnArgument
    \/ CallNative
    \/ CallFunction
    \/ CallNotCallable
    \/ ReturnBody
    \/ IfSpecialForm
    \/ ReturnCondition
    \/ ReturnBranch
    \/ Lambda
    \/ Set
    \/ Define
    \/ ReturnValue
    \/ Finish

Next == NextEval

\* The expressions and the binding of a client that uses the Environment
\* and the evaluator together.
LibPrograms ==
    { L(<<AddXY, Num(1), Num(2)>>),
      L(<<Num(1), SetA1>>),
      IfForm(Id("true"), Id("foo"), SetB2),
      L(<<LambdaForm(<<Id("x")>>,
            L(<<LambdaForm(<<Id("y")>>, L(<<Id("car"), Id("y")>>)),
                Id("x")>>)), Id("foo")>>) }

NextLib ==
    \/ EnvDefine("foo", Number(6))
    \/ EnvGet("foo")
    \/ EnvExtend
    \/ EnvRestrict
    \/ DefineMyAddition
    \/ \E expr \in LibPrograms : Evaluate(expr)
    \/ EvaluateAtom
    \/ EvaluateList
    \/ ReturnCallee
    \/ ReturnArgument
    \/ CallNative
    \/ CallFunction
    \/ CallNotCallable
    \/ ReturnBody
    \/ IfSpecialForm
    \/ ReturnCondition
    \/ ReturnBranch
    \/ Lambda
    \/ Set
    \/ ReturnValue
    \/ Finish

\* A session of a front end: expressions evaluated one after the other.
Spec == Init /\ [][Next]_vars

\* A client of the Environment alone.
SpecEnv == Init /\ [][NextEnv]_vars

\* A client of the Environment and of the evaluator: it calls the methods of
\* Environment between two evaluations.
SpecLib == Init /\ [][NextLib]_vars

(***************************************************************************)
(* A session that uses defun!.                                             *)
(***************************************************************************)
DefunForm(name, params, body) == L(<<Id("defun!"), name, L(params), body>>)

DefunF == DefunForm(Id("f"), <<Id("x"), Id("y")>>,
                    L(<<Id("list"), Id("y"), Id("x")>>))
DefunG == DefunForm(Id("g"), <<Id("x")>>, Id("x"))

\* defun! in the body of a function, which then calls what it has defined.
DefunInCall ==
    L(<<LambdaForm(<<Id("u")>>,
            L(<<Id("list"), DefunG, L(<<Id("g"), Id("u")>>)>>)), Num(5)>>)

DefunPrograms ==
    { DefunF,
      L(<<Id("f"), Num(1), Num(2)>>),
      L(<<Id("f"), Num(1)>>),
      Id("g"),
      DefunInCall,
      L(<<DefunG, Num(7)>>),
      DefunForm(Id("+"), <<Id("x")>>, Id("x")),
      L(<<Id("+"), Num(1)>>),
      L(<<Id("defun!"), Id("f"), L(<<Id("x")>>)>>),
      DefunForm(Num(1), <<Id("x")>>, Id("x")),
      DefunForm(Str("f"), <<Id("x")>>, Id("x")),
      DefunForm(L(<<Id("f")>>), <<Id("x")>>, Id("x")),
      L(<<Id("defun!"), Id("f"), Id("x"), Id("x")>>),
      DefunForm(Id("f"), <<Id("x"), Num(1)>>, Id("x")),
      DefunForm(Id("f"), <<Id("x"), L(<<Id("y")>>)>>, Id("x")),
      IfForm(Id("true"), DefunF, Id("oof")),
      SetForm("f", Num(1)),
      L(<<Str("s"), Num(1)>>) }

\* defun! is bound to the handler defun.
BindDefun ==
    /\ Running /\ Idle
    /\ nEvals = 0
    /\ "defun!" \notin DOMAIN layers[1]
    /\ layers' = define(layers, Token("defun!", Identifier),
                        SpecialForm("defun"))
    /\ UNCHANGED <<panic, ctrl, stack, acts, nEvals, lastOp, snaps>>
    /\ UNCHANGED tables

NextDefun ==
    \/ BindDefun
    \/ \E expr \in DefunPrograms : Evaluate(expr)
    \/ EvaluateAtom
    \/ EvaluateList
    \/ ReturnCallee
    \/ ReturnArgument
    \/ CallNative
    \/ CallFunction
    \/ CallNotCallable
    \/ ReturnBody
    \/ IfSpecialForm
    \/ ReturnCondition
    \/ ReturnBranch
    \/ Lambda
    \/ Set
    \/ ReturnValue
    \/ Defun
    \/ Finish

\* A session of a front end in which defun! may be bound.
SpecDefun == Init /\ [][NextDefun]_vars

(***************************************************************************)
(* The functions on values called directly with values at hand: the        *)
(* natives are pub fn, and == on MankaiObject is what assert_eq! of the     *)
(* tests calls.                                                            *)
(***************************************************************************)
SeqsUpTo(S, n) == UNION {[1..k -> S] : k \in 0..n}

EqValues ==
    { Number(0), Number(1), Ratio(1, 2), Ratio(1, 0), Ratio(0, 0),
      String("a"), String("1"), Bool(TRUE), Bool(FALSE),
      List(<<>>), List(<<Number(1)>>), List(<<Number(1), String("a")>>),
      List(<<List(<<Number(1)>>)>>), List(<<Native("+")>>),
      List(<<Ratio(0, 0)>>),
      SpecialForm("if_special_form"), Native("+"), MyAddition }

DivisionOperands == {Number(0), Number(1), Number(2), Number(-3), String("a")}

AndOperands == {Bool(TRUE), Bool(FALSE), Number(1)}

CompareValues(self, other) ==
    /\ Running /\ Idle
    /\ lastOp' = [op |-> "eq", self |-> self, other |-> other,
                  result |-> eq(self, other)]
    /\ UNCHANGED <<layers, panic, ctrl, stack, acts, nEvals, snaps>>
    /\ UNCHANGED tables

CallDivision(arguments) ==
    /\ Running /\ Idle
    /\ lastOp' = [op |-> "/", arguments |-> arguments,
                  result |-> division(arguments)]
    /\ UNCHANGED <<layers, panic, ctrl, stack, acts, nEvals, snaps>>
    /\ UNCHANGED tables

ListOperands ==
    { List(<<>>), List(<<Number(1)>>),
      List(<<Number(1), String("a"), List(<<Number(2)>>)>>),
      Number(1), String("a") }

CallCar(arguments) ==
    /\ Running /\ Idle
    /\ lastOp' = [op |-> "car", arguments |-> arguments,
                  result |-> car(arguments)]
    /\ UNCHANGED <<layers, panic, ctrl, stack, acts, nEvals, snaps>>
    /\ UNCHANGED tables

CallCdr(arguments) ==
    /\ Running /\ Idle
    /\ lastOp' = [op |-> "cdr", arguments |-> arguments,
                  result |-> cdr(arguments)]
    /\ UNCHANGED <<layers, panic, ctrl, stack, acts, nEvals, snaps>>
    /\ UNCHANGED tables

CallAnd(arguments) ==
    /\ Running /\ Idle
    /\ lastOp' = [op |-> "and", arguments |-> arguments,
                  result |-> and(arguments)]
    /\ UNCHANGED <<layers, panic, ctrl, stack, acts, nEvals, snaps>>
    /\ UNCHANGED tables

NextValues ==
    \/ \E self \in EqValues, other \in EqValues : CompareValues(self, other)
    \/ \E arguments \in SeqsUpTo(DivisionOperands, MaxArgs) :
           CallDivision(arguments)
    \/ \E arguments \in SeqsUpTo(AndOperands, MaxArgs) : CallAnd(arguments)
    \/ \E arguments \in SeqsUpTo(ListOperands, MaxArgs) : CallCar(arguments)
    \/ \E arguments \in SeqsUpTo(ListOperands, MaxArgs) : CallCdr(arguments)

\* The functions on values applied to the values above.
SpecValues == Init /\ [][NextValues]_vars

(***************************************************************************)
(* The lexer (lexer.rs).  A source is a sequence of characters, each a     *)
(* string of length one; positions count from 0 as in the program, so the  *)
(* character at position i is source[i + 1].                               *)
(***************************************************************************)
Nul == "NUL"                        \* the character '\0'
Digits == {"0", "1", "2", "3", "4", "5", "6", "7", "8", "9"}
Whitespace == {" ", "\t", "\n", "\r"}

RECURSIVE Concat(_)
Concat(chars) ==
    IF chars = <<>> THEN "" ELSE Head(chars) \o Concat(Tail(chars))

\* chars().skip(n).take(k)
SkipTake(source, n, k) == SubSeq(source, n + 1, n + k)

ScanError(message, position) == [message |-> message, position |-> position]

LexerNew(source) ==
    [source |-> source, tokens |-> <<>>, current |-> 0, start |-> 0]

Done(self)       == [r |-> "ok", self |-> self]
Failure(error)   == [r |-> "err", error |-> error]
Abort(message)   == [r |-> "panic", message |-> message]

lexer_is_at_end(self) == self.current >= Len(self.source)

lexer_peek(self) ==
    IF lexer_is_at_end(self) THEN Nul ELSE self.source[self.current + 1]

\* peek_next unwraps chars().nth(current + 1), which is None when current is
\* the position of the last character.
peek_nextPanics(self) ==
    ~lexer_is_at_end(self) /\ self.current + 1 >= Len(self.source)

peek_next(self) ==
    IF lexer_is_at_end(self) THEN Nul ELSE self.source[self.current + 2]

is_digit(c) == c \in Digits
is_separator(c) == c \in Whitespace \/ c = "(" \/ c = ")"

add_token(self, kind) ==
    [self EXCEPT !.tokens =
        Append(@, Token(Concat(SkipTake(self.source, self.start,
                                        self.current - self.start)), kind))]

RECURSIVE finish_string(_)
finish_string(self) ==
    IF lexer_is_at_end(self)
    THEN Failure(ScanError("unfinished string", self.start))
    ELSE LET next == self.source[self.current + 1]
             advanced == [self EXCEPT !.current = @ + 1]
         IN  IF next = "\\"
             THEN finish_string([advanced EXCEPT !.current = @ + 1])
             ELSE IF next = "\""
             THEN Done(add_token(advanced,
                      TokenKindString(Concat(SkipTake(self.source,
                          self.start + 1,
                          advanced.current - self.start - 2)))))
             ELSE finish_string(advanced)

\* while self.peek().is_digit(10) { self.current += 1 }
RECURSIVE consumeDigits(_)
consumeDigits(self) ==
    IF is_digit(lexer_peek(self))
    THEN consumeDigits([self EXCEPT !.current = @ + 1])
    ELSE self

DigitValue(c) ==
    CASE c = "0" -> 0 [] c = "1" -> 1 [] c = "2" -> 2 [] c = "3" -> 3
      [] c = "4" -> 4 [] c = "5" -> 5 [] c = "6" -> 6 [] c = "7" -> 7
      [] c = "8" -> 8 [] c = "9" -> 9

\* str::parse::<f64> on digits with at most one '.' between them: the number
\* and the power of ten that its decimal part divides it by.
RECURSIVE parseFrom(_, _, _, _)
parseFrom(chars, i, num, den) ==
    IF i > Len(chars) THEN Ratio(num, IF den = 0 THEN 1 ELSE den)
    ELSE IF chars[i] = "." THEN parseFrom(chars, i + 1, num, 1)
    ELSE parseFrom(chars, i + 1, num * 10 + DigitValue(chars[i]), den * 10)

\* TokenKind::Number(f64) of a number of the model.
NumberKind(value) ==
    IF "d" \in DOMAIN value
    THEN [k |-> "Number", n |-> value.n, d |-> value.d]
    ELSE TokenKindNumber(value.n)

finish_number(self) ==
    LET whole == consumeDigits(self)
    IN  IF lexer_peek(whole) = "." /\ peek_nextPanics(whole)
        THEN Abort("lexer.rs:69: called Option::unwrap() on a None value")
        ELSE LET consumed ==
                     IF lexer_peek(whole) = "." /\ is_digit(peek_next(whole))
                     THEN consumeDigits([whole EXCEPT !.current = @ + 1])
                     ELSE whole
                 number == parseFrom(SkipTake(self.source, self.start,
                                 consumed.current - self.start), 1, 0, 0)
             IN  Done(add_token(consumed, NumberKind(number)))

RECURSIVE consumeIdentifier(_)
consumeIdentifier(self) ==
    IF ~is_separator(lexer_peek(self)) /\ ~lexer_is_at_end(self)
    THEN consumeIdentifier([self EXCEPT !.current = @ + 1])
    ELSE self

finish_identifier(self) == Done(add_token(consumeIdentifier(self), Identifier))

scan_token(self) ==
    LET c == self.source[self.current + 1]
        advanced == [self EXCEPT !.current = @ + 1]
    IN  CASE c \in {" ", "\t", "\n", "\r"} -> Done(advanced)
          [] c = "("  -> Done(add_token(advanced, LeftParen))
          [] c = ")"  -> Done(add_token(advanced, RightParen))
          [] c = "\"" -> finish_string(advanced)
          [] OTHER    -> IF is_digit(c) THEN finish_number(advanced)
                         ELSE finish_identifier(advanced)

(***************************************************************************)
(* The parser (parser.rs).  current counts from 0: the token at current is *)
(* tokens[current + 1].                                                    *)
(***************************************************************************)
ParseError(message, token) == [message |-> message, token |-> token]

ParserNew(tokens) == [tokens |-> tokens, current |-> 0]

Parsed(sexp, self) == [r |-> "ok", sexp |-> sexp, self |-> self]

\* tokens.get(current).unwrap() of peek and is_at_end is None past the last
\* token.
parser_peekPanics(self) == self.current >= Len(self.tokens)
parser_peek(self) == self.tokens[self.current + 1]
parser_is_at_end(self) == parser_peek(self).kind = Eof

RECURSIVE parse_sexp(_)
RECURSIVE finish_list(_)
RECURSIVE finishListFrom(_, _)

\* finish_list after its first element: the loop and the closing
\* parenthesis.
finishListFrom(self, sexps) ==
    IF parser_peekPanics(self)
    THEN Abort("parser.rs:64: called Option::unwrap() on a None value")
    ELSE IF parser_peek(self).kind # RightParen /\ ~parser_is_at_end(self)
    THEN LET next == parse_sexp(self)
         IN  IF next.r = "ok"
             THEN finishListFrom(next.self, Append(sexps, next.sexp))
             ELSE next
    ELSE IF parser_peek(self).kind # RightParen
    THEN Failure(ParseError("expected ')'", Some(parser_peek(self))))
    ELSE Parsed(SexpList(sexps), [self EXCEPT !.current = @ + 1])

\* As finish_list, for a parser that takes "()" for the empty list.
finish_listAllowingEmpty(self) ==
    IF ~parser_peekPanics(self) /\ parser_peek(self).kind = RightParen
    THEN Parsed(SexpList(<<>>), [self EXCEPT !.current = @ + 1])
    ELSE LET first == parse_sexp(self)
         IN  IF first.r = "ok" THEN finishListFrom(first.self, <<first.sexp>>)
             ELSE first

finish_list(self) ==
    LET first == parse_sexp(self)
    IN  IF first.r = "ok" THEN finishListFrom(first.self, <<first.sexp>>)
        ELSE first

parse_sexp(self) ==
    IF self.current >= Len(self.tokens)
    THEN Abort("parser.rs:59: called Option::unwrap() on a None value")
    ELSE LET token == self.tokens[self.current + 1]
             advanced == [self EXCEPT !.current = @ + 1]
         IN  CASE token.kind = LeftParen  -> finish_list(advanced)
               [] token.kind = RightParen ->
                      Failure(ParseError("expected atom or list", Some(token)))
               [] OTHER -> Parsed(Atom(token), advanced)

parse(self) ==
    IF parser_peekPanics(self)
    THEN Abort("parser.rs:53: called Option::unwrap() on a None value")
    ELSE IF ~parser_is_at_end(self) THEN parse_sexp(self)
    ELSE Failure(ParseError("no tokens!", None))

(***************************************************************************)
(* The front end (mankairepl.rs, run): a line is scanned, then parsed.     *)
(***************************************************************************)
MaxSource == 5      \* characters of a line

Alphabet == {"(", ")", "1", ".", "\"", "\\", "a", " "}
Sources == SeqsUpTo(Alphabet, MaxSource)

\* run: Lexer::new(source).
Run ==
    /\ Running /\ Idle
    /\ \E source \in Sources :
          ctrl' = [mode |-> "scan", lexer |-> LexerNew(source)]
    /\ UNCHANGED <<layers, panic, stack, acts, nEvals, lastOp, snaps>>
    /\ UNCHANGED tables

\* One turn of the loop of Lexer::scan.
ScanToken ==
    /\ Running /\ ctrl.mode = "scan" /\ ~lexer_is_at_end(ctrl.lexer)
    /\ LET started == [ctrl.lexer EXCEPT !.start = ctrl.lexer.current]
           result == scan_token(started)
       IN  CASE result.r = "ok" ->
                    /\ ctrl' = [mode |-> "scan", lexer |-> result.self]
                    /\ UNCHANGED panic
             [] result.r = "err" ->
                    /\ ctrl' = [mode |-> "scan_error", lexer |-> started,
                                error |-> result.error]
                    /\ UNCHANGED panic
             [] result.r = "panic" ->
                    /\ panic' = result.message
                    /\ UNCHANGED ctrl
    /\ UNCHANGED <<layers, stack, acts, nEvals, lastOp, snaps>>
    /\ UNCHANGED tables

\* Lexer::scan leaves its loop, adds the Eof token and returns Ok.
ScanEof ==
    /\ Running /\ ctrl.mode = "scan" /\ lexer_is_at_end(ctrl.lexer)
    /\ ctrl' = [mode |-> "scanned",
                lexer |-> add_token([ctrl.lexer EXCEPT
                                        !.start = ctrl.lexer.current], Eof)]
    /\ UNCHANGED <<layers, panic, stack, acts, nEvals, lastOp, snaps>>
    /\ UNCHANGED tables

\* run: Parser::new(lexer.tokens).parse().
Parse ==
    /\ Running /\ ctrl.mode = "scanned"
    /\ LET result == parse(ParserNew(ctrl.lexer.tokens))
       IN  IF result.r = "panic"
           THEN /\ panic' = result.message
                /\ UNCHANGED ctrl
           ELSE /\ ctrl' = [mode |-> "parsed", lexer |-> ctrl.lexer,
                            result |-> result]
                /\ UNCHANGED panic
    /\ UNCHANGED <<layers, stack, acts, nEvals, lastOp, snaps>>
    /\ UNCHANGED tables

NextFront ==
    \/ Run
    \/ ScanToken
    \/ ScanEof
    \/ Parse

\* A front end that scans and parses one line.
SpecFront == Init /\ [][NextFront]_vars

(***************************************************************************)
(* Properties.                                                             *)
(***************************************************************************)
Finished == ctrl.mode = "return" /\ stack = <<>>

\* C1: when the evaluation of the body of a user-defined function returns,
\* with a value or with an error, the call pops its layer and hands the
\* result on unchanged: the environment has as many layers after the call as
\* it had before it.
C1_LayerPoppedOnReturn ==
    [][AtReturn("body") =>
         /\ Len(layers') = Top.depth
         /\ ctrl' = Returning(ctrl.result, Top.act)]_vars

\* A call whose body failed has returned the failure and left one layer.
C1_Witness ==
    /\ ctrl.mode = "return" /\ ~ctrl.result.ok
    /\ acts[ctrl.act].invoked > 0
    /\ \E b \in Kid(ctrl.act, 0) : acts[b].ret = <<ctrl.result>>
    /\ Len(layers) = 1

\* C2: the number of layers is 1 plus the number of calls of user-defined
\* functions in progress, the layer of each call lies directly on those of
\* the calls around it, and between two top-level evaluations only the
\* global layer is left.
C2_DepthIsCallNesting ==
    /\ Len(layers) = 1 + Cardinality(BodyFrames)
    /\ \A i \in BodyFrames :
           stack[i].depth = 1 + Cardinality({j \in BodyFrames : j < i})
    /\ (Idle \/ Finished) => Len(layers) = 1

\* Three nested calls are unwinding from a failure.
C2_Witness ==
    /\ Cardinality(BodyFrames) = 3 /\ Len(layers) = 4
    /\ ctrl.mode = "return" /\ ~ctrl.result.ok

\* C3: restrict gives every identifier the lookup it had when the matching
\* extend was called, whatever was defined in between: a binding shadowed in
\* the removed layer shows its outer value again and an identifier defined
\* only in the removed layer is unbound again.
C3_RestrictRestoresVisibility ==
    [][(Idle /\ Len(layers') < Len(layers)) =>
         Lookups(layers') = snaps[Len(snaps)]]_vars

\* restrict has removed a layer that shadowed foo and was alone to bind bar.
C3_Witness ==
    /\ lastOp.op = "restrict" /\ lastOp.removed # <<>>
    /\ {"foo", "bar"} \subseteq DOMAIN lastOp.removed[1]
    /\ get(layers, Token("foo", Identifier)).ok
    /\ get(layers, Token("foo", Identifier)).value # lastOp.removed[1]["foo"]
    /\ ~get(layers, Token("bar", Identifier)).ok

\* C4: the environment has at least one layer in every state; restrict on
\* the sole layer panics and removes nothing; no step of an evaluation
\* panics.
C4_GlobalLayerPermanent ==
    /\ [](Len(layers) >= 1)
    /\ [][(lastOp' # lastOp /\ lastOp'.op = "restrict" /\ Len(layers) = 1) =>
            (panic' = "trying to remove global scope" /\ layers' = layers)]_vars
    /\ [][~Idle => panic' = ""]_vars

\* After an evaluation a client called restrict on the global layer.
C4_Witness ==
    /\ panic = "trying to remove global scope"
    /\ Len(layers) = 1
    /\ nEvals > 0

\* C5: get directly after define(id, v) returns v, and get of an identifier
\* that no layer binds returns the unbound-symbol error.
C5_GetAfterDefine ==
    lastOp.op = "get" =>
      /\ (lastOp.after # <<>> /\ lastOp.after[1] = lastOp.lexeme) =>
             lastOp.result = Ok(lastOp.after[2])
      /\ (\A i \in DOMAIN layers : lastOp.lexeme \notin DOMAIN layers[i]) =>
             lastOp.result = Err("unboud symbol '" \o lastOp.lexeme \o "'")

\* get returned the value just defined in the second layer, not the value
\* of the global layer.
C5_Witness ==
    /\ lastOp.op = "get" /\ lastOp.lexeme = "foo"
    /\ lastOp.after = <<"foo", String("baz")>>
    /\ lastOp.result = Ok(String("baz"))
    /\ Len(layers) = 2
    /\ "foo" \in DOMAIN layers[1] /\ layers[1]["foo"] = Number(6)

\* C6: get returns the binding of the topmost layer that holds the
\* identifier, and the error when no layer holds it.
C6_TopmostBindingWins ==
    lastOp.op = "get" =>
      LET holders == {i \in DOMAIN layers : lastOp.lexeme \in DOMAIN layers[i]}
      IN  IF holders = {}
          THEN ~lastOp.result.ok
          ELSE \E i \in holders :
                 /\ \A j \in holders : j <= i
                 /\ lastOp.result = Ok(layers[i][lastOp.lexeme])

\* foo is bound in the global and in the third layer to different values and
\* get returned the value of the third layer.
C6_Witness ==
    /\ lastOp.op = "get" /\ lastOp.lexeme = "foo"
    /\ Len(layers) = 3
    /\ "foo" \in DOMAIN layers[1] /\ "foo" \in DOMAIN layers[3]
    /\ layers[1]["foo"] # layers[3]["foo"]
    /\ lastOp.result = Ok(layers[3]["foo"])

\* C7: define changes the binding of its identifier in the topmost layer and
\* nothing else.
C7_DefineFrame ==
    [][(lastOp' # lastOp /\ lastOp'.op = "define") =>
         /\ Len(layers') = Len(layers)
         /\ \A i \in 1..(Len(layers) - 1) : layers'[i] = layers[i]
         /\ LET old == layers[Len(layers)]
                new == layers'[Len(layers)]
            IN  /\ DOMAIN new = DOMAIN old \cup {lastOp'.lexeme}
                /\ new[lastOp'.lexeme] = lastOp'.value
                /\ \A k \in DOMAIN old \ {lastOp'.lexeme} : new[k] = old[k]]_vars

\* define wrote foo into the second layer beside bar, with foo bound to
\* another value in the global layer.
C7_Witness ==
    /\ lastOp.op = "define" /\ lastOp.lexeme = "foo"
    /\ Len(layers) = 2
    /\ "foo" \in DOMAIN layers[1] /\ layers[1]["foo"] # lastOp.value
    /\ "bar" \in DOMAIN layers[2]
    /\ layers[2]["foo"] = lastOp.value

\* The activations that evaluate a list whose head has evaluated to a value.
ListActs == {a \in DOMAIN acts : ~IsAtom(acts[a].expr) /\
                \E h \in Kid(a, 1) : HasReturned(h) /\ acts[h].ret[1].ok}
Callee(a) == acts[CHOOSE h \in Kid(a, 1) : TRUE].ret[1].value
IfActs == {a \in ListActs : Callee(a) = SpecialForm("if_special_form") /\
                            Len(acts[a].expr.list) = 4}

\* C8: if! with three sub-expressions evaluates the condition first and
\* then at most one branch: the then-branch only after the condition
\* yielded true, the else-branch only after it yielded false, each at most
\* once; its result is the result of that branch, the failure of the
\* condition, or an error when the condition is no Bool.
C8_IfEvaluatesOneBranch ==
    \A a \in IfActs :
      LET cond  == Kid(a, 2)
          then_ == Kid(a, 3)
          else_ == Kid(a, 4)
      IN  /\ Cardinality(cond) <= 1
          /\ Cardinality(then_) <= 1
          /\ Cardinality(else_) <= 1
          /\ Kids(a) = Kid(a, 1) \cup cond \cup then_ \cup else_
          /\ \A t \in then_ :
                 \E c \in cond : c < t /\ acts[c].ret = <<Ok(Bool(TRUE))>>
          /\ \A e \in else_ :
                 \E c \in cond : c < e /\ acts[c].ret = <<Ok(Bool(FALSE))>>
          /\ HasReturned(a) =>
                 \E c \in cond :
                   /\ HasReturned(c)
                   /\ LET r == acts[c].ret[1]
                      IN  IF ~r.ok
                          THEN acts[a].ret = <<r>> /\ then_ \cup else_ = {}
                          ELSE IF r.value = Bool(TRUE)
                          THEN \E t \in then_ : acts[a].ret = acts[t].ret
                          ELSE IF r.value = Bool(FALSE)
                          THEN \E e \in else_ : acts[a].ret = acts[e].ret
                          ELSE /\ then_ \cup else_ = {}
                               /\ acts[a].ret = <<Err(
                                    "1st argument to 'if!' must evaluate to a boolean!")>>

\* (if! true (set! a 1) (set! b 2)) has returned 1, a is bound and b is not.
C8_Witness ==
    /\ Finished
    /\ acts[1].expr = IfForm(Id("true"), SetA1, SetB2)
    /\ ctrl.result = Ok(Number(1))
    /\ get(layers, Token("a", Identifier)) = Ok(Number(1))
    /\ ~get(layers, Token("b", Identifier)).ok

\* C9: for a list whose head is no special form the arguments are evaluated
\* from left to right, each once, an argument only after the one before it
\* has returned a value, and the callee is invoked only after all of them
\* have; a failing argument is the result of the list and the callee is
\* not invoked.  For a list whose head is a special form no other element
\* is evaluated before the handler is invoked.
C9_ArgumentsBeforeCall ==
    \A a \in ListActs :
      LET n == Len(acts[a].expr.list)
      IN  IF Callee(a).t = "SpecialForm"
          THEN \A c \in Kids(a) :
                   acts[c].idx >= 2 =>
                       acts[a].invoked > 0 /\ c > acts[a].invoked
          ELSE /\ \A c \in Kids(a) : acts[c].idx <= n
               /\ \A j \in 2..n : Cardinality(Kid(a, j)) <= 1
               /\ \A c \in Kid(a, 2) : \A h \in Kid(a, 1) : h < c
               /\ \A j \in 3..n : \A c \in Kid(a, j) :
                      \E p \in Kid(a, j - 1) :
                          p < c /\ HasReturned(p) /\ ~Failed(p)
               /\ acts[a].invoked > 0 =>
                      \A j \in 2..n : \E c \in Kid(a, j) :
                          c <= acts[a].invoked /\ HasReturned(c) /\ ~Failed(c)
               /\ \A j \in 2..n : \A c \in Kid(a, j) :
                      Failed(c) =>
                          /\ acts[a].invoked = 0
                          /\ HasReturned(a) => acts[a].ret = acts[c].ret
               /\ HasReturned(a) =>
                      \/ acts[a].invoked > 0
                      \/ \E j \in 2..n : \E c \in Kid(a, j) : Failed(c)

\* (list (set! a 1) oof (set! b 2)) has failed at oof: the first argument
\* was evaluated, the third was not, and list was not invoked.
C9_Witness ==
    /\ Finished
    /\ acts[1].expr = L(<<Id("list"), SetA1, Id("oof"), SetB2>>)
    /\ ctrl.result = Err("unboud symbol 'oof'")
    /\ Kid(1, 2) # {} /\ Kid(1, 3) # {} /\ Kid(1, 4) = {}
    /\ acts[1].invoked = 0

\* C10: a user-defined function called with a number of arguments that is
\* not its number of parameters returns the error that names the number
\* found, the function ("anonymous function" when it has no name) and the
\* number required; no layer is pushed or popped, no binding is made and
\* the body is not evaluated.
C10_ArityMismatch ==
    [][(AtCall({"Function"}) /\
        Len(ctrl.callee.arguments_identifiers) # Len(ctrl.arguments)) =>
         /\ layers' = layers
         /\ stack' = stack
         /\ Len(acts') = Len(acts)
         /\ ctrl' = Returning(
              Err("found " \o ToString(Len(ctrl.arguments))
                  \o " arguments but '"
                  \o (IF ctrl.callee.name = None THEN "anonymous function"
                      ELSE ctrl.callee.name.v)
                  \o "' requires "
                  \o ToString(Len(ctrl.callee.arguments_identifiers)) \o "!"),
              ctrl.act)]_vars

\* (my-addition 1 2 3) has failed with the error that names my-addition.
C10_Witness ==
    /\ Finished
    /\ acts[1].expr = L(<<Id("my-addition"), Num(1), Num(2), Num(3)>>)
    /\ ctrl.result = Err("found 3 arguments but 'my-addition' requires 2!")
    /\ acts[1].invoked > 0 /\ Kid(1, 0) = {}
    /\ Len(layers) = 1

\* C11: a call of a user-defined function with as many arguments as it has
\* parameters pushes one layer that binds exactly the parameters, the i-th
\* to the i-th argument (the last occurrence of a name that occurs twice
\* decides), leaves the layers of the caller as they are and evaluates the
\* body next; while the call is in progress the layers of the caller do not
\* change, and the return leaves exactly them: a global binding shadowed by
\* a parameter is visible again, unchanged.  The two-parameter addition
\* called on 1 and 2 yields Number(3).
C11_ParametersBoundPositionally ==
    /\ [][(AtCall({"Function"}) /\
           Len(ctrl.callee.arguments_identifiers) = Len(ctrl.arguments)) =>
            LET ids == ctrl.callee.arguments_identifiers
                new == layers'[Len(layers')]
            IN  /\ Len(layers') = Len(layers) + 1
                /\ SubSeq(layers', 1, Len(layers)) = layers
                /\ DOMAIN new = {ids[i].lexeme : i \in DOMAIN ids}
                /\ \A i \in DOMAIN ids :
                       (\A j \in DOMAIN ids : j > i => ids[j].lexeme # ids[i].lexeme)
                           => get(layers', ids[i]) = Ok(ctrl.arguments[i])
                /\ ctrl'.mode = "evaluate" /\ ctrl'.expr = ctrl.callee.body]_vars
    /\ [](\A i \in BodyFrames :
             SubSeq(layers, 1, stack[i].depth) = stack[i].saved)
    /\ [][AtReturn("body") => layers' = Top.saved]_vars
    /\ []((Finished /\ layers[1]["+"] = Native("+") /\
            (acts[1].expr = L(<<AddXY, Num(1), Num(2)>>) \/
             (acts[1].expr = L(<<Id("my-addition"), Num(1), Num(2)>>) /\
              get(layers, Token("my-addition", Identifier)) = Ok(MyAddition))))
           => ctrl.result = Ok(Number(3)))

\* ((lambda! (a) a) 7) has returned 7 in a session that had bound a to 1,
\* and a is 1 again.
C11_Witness ==
    /\ Finished
    /\ acts[1].expr = L(<<LambdaForm(<<Id("a")>>, Id("a")), Num(7)>>)
    /\ ctrl.result = Ok(Number(7))
    /\ \E b \in Kid(1, 0) : acts[b].ret = <<Ok(Number(7))>>
    /\ get(layers, Token("a", Identifier)) = Ok(Number(1))

\* The activations of a set! or define! form that has two arguments, the
\* first an identifier that the form accepts.
BindActs ==
    {a \in ListActs :
        /\ Callee(a) \in {SpecialForm("set"), SpecialForm("define")}
        /\ Len(acts[a].expr.list) = 3
        /\ IsAtom(acts[a].expr.list[2])
        /\ acts[a].expr.list[2].atom.kind = Identifier
        /\ Callee(a) = SpecialForm("define") =>
               acts[a].expr.list[2].atom.lexeme \notin
                   SpecialFormNames \cup NativeNames \cup ConstantNames}

\* C12: set!/define! on an identifier never evaluates the identifier,
\* evaluates the value expression exactly once and returns its result; when
\* that is a value v the identifier is bound to v in the topmost layer as
\* the form returns.  The global layer changes only by such a form at top
\* level (or by the front end binding a name between evaluations), and a
\* top-level evaluate of an identifier returns what the global layer binds
\* it to: the binding made at top level persists until the identifier is
\* bound again.
C12_SetBindsAndReturns ==
    /\ [](\A a \in BindActs :
             /\ Kids(a) = Kid(a, 1) \cup Kid(a, 3)
             /\ Cardinality(Kid(a, 3)) <= 1
             /\ acts[a].invoked > 0 => Cardinality(Kid(a, 3)) = 1
             /\ HasReturned(a) =>
                    \E c \in Kid(a, 3) : acts[a].ret = acts[c].ret)
    /\ [][(AtReturn("value") /\ ctrl.result.ok) =>
            /\ ctrl' = Returning(ctrl.result, Top.act)
            /\ get(layers', Top.name) = Ok(ctrl.result.value)
            /\ Len(layers') = Len(layers)
            /\ \A i \in 1..(Len(layers) - 1) : layers'[i] = layers[i]]_vars
    /\ [][layers'[1] # layers[1] =>
            \/ Idle
            \/ /\ AtReturn("value") /\ ctrl.result.ok /\ Len(layers) = 1
               /\ layers'[1] =
                      Insert(layers[1], Top.name.lexeme, ctrl.result.value)]_vars
    /\ [][(Running /\ ctrl.mode = "evaluate" /\ stack = <<>> /\
           IsAtom(ctrl.expr) /\ ctrl.expr.atom.kind = Identifier) =>
            /\ Len(layers) = 1
            /\ ctrl'.mode = "return"
            /\ ctrl'.result =
                  IF ctrl.expr.atom.lexeme \in DOMAIN layers[1]
                  THEN Ok(layers[1][ctrl.expr.atom.lexeme])
                  ELSE Err("unboud symbol '" \o ctrl.expr.atom.lexeme \o "'")]_vars

\* A later top-level evaluate of a has returned the 3 that (define! a 3)
\* bound.
C12_Witness ==
    /\ Finished
    /\ nEvals >= 2
    /\ acts[1].expr = Id("a")
    /\ ctrl.result = Ok(Number(3))

\* C13: define! on an identifier of the special-form table fails with the
\* error of the special forms, on one of the native-function table with the
\* error of the native functions, on one of the constant table with the
\* error of the constants, each naming the identifier; it then binds
\* nothing and does not evaluate the value expression.  On any other
\* identifier it goes on to evaluate the value expression.
C13_DefineRejectsReserved ==
    /\ [][(AtSpecialForm("define") /\ defineName(ctrl.arguments).ok) =>
            LET lexeme == ctrl.arguments[1].atom.lexeme
                category ==
                    IF lexeme \in SpecialFormNames THEN "a special form"
                    ELSE IF lexeme \in NativeNames THEN "a native function"
                    ELSE IF lexeme \in ConstantNames THEN "a constant"
                    ELSE ""
            IN  IF category # ""
                THEN /\ ctrl' = Returning(
                            Err("can't assign to '" \o lexeme
                                \o "' because the name is reserved for "
                                \o category \o "!"), ctrl.act)
                     /\ layers' = layers
                     /\ stack' = stack
                     /\ Len(acts') = Len(acts)
                ELSE /\ ctrl' = Evaluating(ctrl.arguments[2], Len(acts) + 1)
                     /\ Len(stack') = Len(stack) + 1]_vars
    /\ [](\A a \in ListActs :
             (/\ Callee(a) = SpecialForm("define")
              /\ Len(acts[a].expr.list) = 3
              /\ IsAtom(acts[a].expr.list[2])
              /\ acts[a].expr.list[2].atom.lexeme \in
                     SpecialFormNames \cup NativeNames \cup ConstantNames)
             => /\ Kids(a) = Kid(a, 1)
                /\ HasReturned(a) => Failed(a))

\* (define! true 1) has failed with the error of the constants and true is
\* still the constant.
C13_Witness ==
    /\ Finished
    /\ acts[1].expr = DefineForm("true", Num(1))
    /\ acts[1].invoked > 0
    /\ ctrl.result =
          Err("can't assign to 'true' because the name is reserved for a constant!")
    /\ get(layers, Token("true", Identifier)) = Ok(Bool(TRUE))

\* The activations of a form of the given handler whose target is the name
\* of a native function.
OnNativeName(sf) ==
    {a \in ListActs :
        /\ Callee(a) = SpecialForm(sf)
        /\ Len(acts[a].expr.list) = 3
        /\ IsAtom(acts[a].expr.list[2])
        /\ acts[a].expr.list[2].atom.kind = Identifier
        /\ acts[a].expr.list[2].atom.lexeme \in NativeNames}

C15_NoEnvironmentCaptured ==
    /\ [][(Running /\ ctrl.mode = "evaluate" /\ IsAtom(ctrl.expr) /\
           ctrl.expr.atom.kind = Identifier) =>
            LET lexeme == ctrl.expr.atom.lexeme
                holders == {i \in DOMAIN layers : lexeme \in DOMAIN layers[i]}
            IN  /\ ctrl'.mode = "return"
                /\ IF holders = {}
                   THEN ctrl'.result = Err("unboud symbol '" \o lexeme \o "'")
                   ELSE \E i \in holders :
                          /\ \A j \in holders : j <= i
                          /\ ctrl'.result = Ok(layers[i][lexeme])]_vars
    /\ [][(AtCall({"Function"}) /\ layers' # layers) =>
            /\ DOMAIN ctrl.callee = {"t", "name", "arguments_identifiers", "body"}
            /\ Len(layers') = Len(layers) + 1
            /\ SubSeq(layers', 1, Len(layers)) = layers]_vars
    /\ []((Finished /\ acts[1].expr = CallUnderA) =>
            ctrl.result = Ok(Number(5)))
    /\ []((Finished /\ acts[1].expr = CallAfterA) =>
            /\ ctrl.result = get(layers, Token("a", Identifier))
            /\ ctrl.result # Ok(Number(5)))

\* With a bound to 1 in the global layer, the function reading a that was
\* called under a parameter a bound to 5 has returned 5.
C15_Witness ==
    /\ Finished
    /\ acts[1].expr = CallUnderA
    /\ ctrl.result = Ok(Number(5))
    /\ get(layers, Token("a", Identifier)) = Ok(Number(1))

\* C16: a frame that receives a failure from the sub-expression it waited
\* for (callee, argument, condition, branch, value expression or function
\* body) returns that same failure at once: it enters no other evaluation
\* and binds nothing.  So a failed sub-expression is the last one its parent
\* evaluates, the parent returns the same error, every failure of one
\* top-level evaluation is one and the same error, and that error is the
\* result of the top-level evaluate.
C16_ErrorsPropagateUnchanged ==
    /\ [][(Running /\ ctrl.mode = "return" /\ stack # <<>> /\
           ~ctrl.result.ok) =>
            /\ ctrl' = Returning(ctrl.result, Top.act)
            /\ stack' = Pop
            /\ Len(acts') = Len(acts)
            /\ acts'[Top.act].ret = <<ctrl.result>>
            /\ Top.k # "body" => layers' = layers
            /\ Top.k = "body" => layers' = Top.saved]_vars
    /\ [](\A a \in DOMAIN acts : \A c \in Kids(a) :
             Failed(c) =>
                 /\ \A d \in Kids(a) : d <= c
                 /\ HasReturned(a) => acts[a].ret = acts[c].ret)
    /\ [](\A a, b \in DOMAIN acts :
             (Failed(a) /\ Failed(b)) => acts[a].ret = acts[b].ret)
    /\ [](Finished =>
             /\ acts[1].ret = <<ctrl.result>>
             /\ \A a \in DOMAIN acts : Failed(a) => ctrl.result = acts[a].ret[1])

\* The failure of car under an argument list, a function body, a branch and
\* a set! is the result of the top-level evaluation; the argument after the
\* failed one was not evaluated and c was not bound.
C16_Witness ==
    /\ Finished
    /\ acts[1].expr = FailDeep
    /\ ctrl.result = Err("1st argument to 'car' must be a list!")
    /\ Cardinality({a \in DOMAIN acts : Failed(a)}) >= 5
    /\ \A a \in DOMAIN acts : acts[a].expr # SetA1
    /\ ~get(layers, Token("c", Identifier)).ok

\* C17: the call of a Number, a String, a Bool or a List fails with the
\* error that quotes the text of the value, and changes nothing else; the
\* arguments have been evaluated before, so a failing argument is reported
\* instead.  A list whose head evaluates to such a value never has a body
\* evaluated for it and never returns a value.
C17_NotCallable ==
    /\ [][AtCall({"Number", "String", "Bool", "List"}) =>
            /\ ctrl' = Returning(
                   Err("'" \o to_string(ctrl.callee) \o "' is not callable!"),
                   ctrl.act)
            /\ layers' = layers
            /\ stack' = stack
            /\ Len(acts') = Len(acts)]_vars
    /\ [](\A a \in ListActs :
             Callee(a).t \notin {"SpecialForm", "Native", "Function"} =>
                 /\ Kid(a, 0) = {}
                 /\ HasReturned(a) => Failed(a)
                 /\ (HasReturned(a) /\ acts[a].invoked > 0) =>
                        acts[a].ret = <<Err("'" \o to_string(Callee(a))
                                           \o "' is not callable!")>>)
    /\ [](Finished =>
             /\ acts[1].expr = L(<<Num(1), SetA1>>) =>
                    ctrl.result = Err("'1' is not callable!")
             /\ acts[1].expr = L(<<Num(1), Id("oof")>>) =>
                    ctrl.result = Err("unboud symbol 'oof'")
             /\ acts[1].expr = L(<<Str("foo"), Num(1)>>) =>
                    ctrl.result = Err("'\"foo\"' is not callable!")
             /\ (acts[1].expr = L(<<Id("true")>>) /\ acts[1].invoked > 0) =>
                    ctrl.result = Err("'true' is not callable!"))

\* The call of the list (1 "s" (false)) has failed with the error that
\* quotes it.
C17_Witness ==
    /\ Finished
    /\ acts[1].invoked > 0
    /\ Callee(1) = List(<<Number(1), String("s"), List(<<Bool(FALSE)>>)>>)
    /\ ctrl.result = Err("'(1 \"s\" (false))' is not callable!")

Uncomparable == {"SpecialForm", "Native", "Function"}
\* A String, a Bool or a Number that is not NaN.
Plain(value) ==
    value.t \in {"String", "Bool"} \/ (value.t = "Number" /\ ~IsNaN(value))

\* C18: == on two values is true only for two Numbers, two Strings or two
\* Bools of the same content and for two Lists of the same length whose
\* elements are equal, each to each, under ==; for Strings, Bools and Lists
\* it is true then, and for Numbers it is unless the number is NaN.  It is
\* false for values of two variants, false whenever one side is a
\* SpecialForm, a Native or a Function, the very same one on the other side
\* included, and false between a List holding such a value and itself.
C18_ValueEquality ==
    lastOp.op = "eq" =>
      LET a == lastOp.self
          b == lastOp.other
          r == lastOp.result
      IN  /\ r \in BOOLEAN
          /\ r => (a.t = b.t /\ a.t \in {"Number", "String", "Bool", "List"})
          /\ (a.t \in Uncomparable \/ b.t \in Uncomparable) => ~r
          /\ (a.t = "Number" /\ b.t = "Number") =>
                 /\ r => (Numerator(a) = Numerator(b) /\
                          Denominator(a) = Denominator(b))
                 /\ (a = b /\ ~IsNaN(a)) => r
          /\ (a.t = "String" /\ b.t = "String") => (r <=> a.s = b.s)
          /\ (a.t = "Bool" /\ b.t = "Bool") => (r <=> a.b = b.b)
          /\ (a.t = "List" /\ b.t = "List") =>
                 /\ r <=> /\ Len(a.l) = Len(b.l)
                          /\ \A i \in DOMAIN a.l : eq(a.l[i], b.l[i])
                 /\ (\E i \in DOMAIN a.l : a.l[i].t \in Uncomparable) => ~r
                 /\ ((\A i \in DOMAIN a.l : Plain(a.l[i])) /\
                     (\A i \in DOMAIN b.l : Plain(b.l[i]))) =>
                        (r <=> a.l = b.l)

\* The list holding the native + has been compared with itself and found
\* not equal.
C18_Witness ==
    /\ lastOp.op = "eq"
    /\ lastOp.self = List(<<Native("+")>>)
    /\ lastOp.other = lastOp.self
    /\ lastOp.result = FALSE

RECURSIVE ProductFrom(_, _)
ProductFrom(arguments, i) ==
    IF i > Len(arguments) THEN 1
    ELSE Numerator(arguments[i]) * ProductFrom(arguments, i + 1)

\* C19: / on two or more Numbers fails, when one after the first is zero,
\* with the divide-by-zero error that gives the position, counted from 1,
\* of the first of them; a zero in the first place is no error.  Otherwise
\* it returns the Number that is the first argument divided by each of the
\* others in turn, which multiplied by all of them gives the first back.
\* On no argument it fails.
C19_Division ==
    lastOp.op = "/" =>
      LET arguments == lastOp.arguments
          r == lastOp.result
          zeros == {i \in 2..Len(arguments) : arguments[i] = Number(0)}
      IN  /\ arguments = <<>> => ~r.ok
          /\ (Len(arguments) >= 2 /\
              \A i \in DOMAIN arguments : arguments[i].t = "Number") =>
                IF zeros # {}
                THEN \E z \in zeros :
                       /\ \A i \in zeros : z <= i
                       /\ r = Err("can't divide by zero (" \o ToString(z)
                                  \o "-th argument to '/' is zero)!")
                ELSE /\ r.ok
                     /\ r.value.t = "Number"
                     /\ Denominator(r.value) > 0
                     /\ Numerator(r.value) * ProductFrom(arguments, 2) =
                            Numerator(arguments[1]) * Denominator(r.value)

\* (/ 0 2 0) has failed at the third argument, not at the zero in front.
C19_Witness ==
    /\ lastOp.op = "/"
    /\ lastOp.arguments = <<Number(0), Number(2), Number(0)>>
    /\ lastOp.result = Err("can't divide by zero (3-th argument to '/' is zero)!")

\* C20: and on no argument fails.  On one or more it is decided by the
\* first operand that is not true: false when that operand is false, and
\* the error that gives its position, counted from 1, when it is no Bool;
\* the operands after it are not looked at.  With every operand true it is
\* true.
C20_And ==
    lastOp.op = "and" =>
      LET arguments == lastOp.arguments
          r == lastOp.result
          others == {i \in DOMAIN arguments : arguments[i] # Bool(TRUE)}
      IN  IF arguments = <<>> THEN ~r.ok
          ELSE IF others = {} THEN r = Ok(Bool(TRUE))
          ELSE \E f \in others :
                 /\ \A i \in others : f <= i
                 /\ IF arguments[f] = Bool(FALSE)
                    THEN r = Ok(Bool(FALSE))
                    ELSE r = Err(ToString(f)
                                 \o "-th argument to 'and' is not a boolean!")

\* (and true 1 false) has failed at the second operand.
C20_Witness ==
    /\ lastOp.op = "and"
    /\ lastOp.arguments = <<Bool(TRUE), Number(1), Bool(FALSE)>>
    /\ lastOp.result = Err("2-th argument to 'and' is not a boolean!")

\* C21: on one argument that is a List with an element, car returns the
\* first element and cdr returns the List of the others in their order: the
\* first element put in front of it gives the argument back, and for a List
\* of one element it is the empty List.  On the empty List each fails with
\* its empty-list error; on a value that is no List, and on no or on
\* several arguments, both fail.
C21_CarCdr ==
    lastOp.op \in {"car", "cdr"} =>
      LET arguments == lastOp.arguments
          r == lastOp.result
      IN  IF Len(arguments) # 1 THEN ~r.ok
          ELSE IF arguments[1].t # "List" THEN ~r.ok
          ELSE IF arguments[1].l = <<>>
          THEN r = Err("can't apply '" \o lastOp.op \o "' to the empty list!")
          ELSE IF lastOp.op = "car"
          THEN r = Ok(arguments[1].l[1])
          ELSE /\ r.ok
               /\ r.value.t = "List"
               /\ Len(r.value.l) = Len(arguments[1].l) - 1
               /\ <<arguments[1].l[1]>> \o r.value.l = arguments[1].l

\* cdr of the list (1 "a" (2)) has returned ("a" (2)).
C21_Witness ==
    /\ lastOp.op = "cdr"
    /\ lastOp.arguments =
          <<List(<<Number(1), String("a"), List(<<Number(2)>>)>>)>>
    /\ lastOp.result = Ok(List(<<String("a"), List(<<Number(2)>>)>>))

\* C23: the three tables of reserved names (special forms, native functions,
\* constants) of an interpreter share no name, and no step of an evaluation
\* changes them: they hold after every step what Interpreter::default put
\* into them, also when set! or define! is applied to a reserved name.
C23_ReservedTablesFixed ==
    /\ [](/\ special_forms \cap native_functions = {}
          /\ special_forms \cap constants = {}
          /\ native_functions \cap constants = {})
    /\ [][/\ special_forms' = special_forms
          /\ native_functions' = native_functions
          /\ constants' = constants]_vars
    /\ [](/\ special_forms = {"if!", "lambda!", "set!"}
          /\ Cardinality(native_functions) = 20
          /\ constants = {"true", "false"})

\* set! has bound the reserved name + to a string, and + is still in the
\* table of the native functions.
C23_Witness ==
    /\ Finished
    /\ ctrl.result.ok
    /\ acts[1].expr = L(<<Id("list"), SetForm("+", Str("plus")), Id("+")>>)
    /\ layers[1]["+"] = String("plus")
    /\ "+" \in native_functions

\* The tokens of the atoms of an S-expression.
RECURSIVE AtomsOf(_)
AtomsOf(sexp) ==
    IF IsAtom(sexp) THEN {sexp.atom}
    ELSE UNION {AtomsOf(sexp.list[i]) : i \in DOMAIN sexp.list}

\* Opening minus closing parentheses among the first i tokens.
RECURSIVE DepthAfter(_, _)
DepthAfter(tokens, i) ==
    IF i = 0 THEN 0
    ELSE DepthAfter(tokens, i - 1)
         + (IF tokens[i].kind = LeftParen THEN 1
            ELSE IF tokens[i].kind = RightParen THEN -1 ELSE 0)

\* The stream starts with a list that is not closed before Eof, and no ")"
\* follows a "(" directly.
Unclosed(tokens) ==
    /\ tokens[1].kind = LeftParen
    /\ \A i \in DOMAIN tokens : DepthAfter(tokens, i) > 0
    /\ \A i \in DOMAIN tokens :
          tokens[i].kind = LeftParen => tokens[i + 1].kind # RightParen

\* C22: for a token stream of the lexer in which a list is opened and not
\* closed before Eof, also one where "(" is directly followed by Eof, parse
\* returns the ParseError "expected ')'" that carries the Eof token: it
\* neither aborts nor returns an S-expression; and no S-expression parse
\* returns has an Eof or a parenthesis among its atoms.
C22_UnclosedListIsParseError ==
    /\ (ctrl.mode \in {"scanned", "parsed"} /\ Unclosed(ctrl.lexer.tokens)) =>
          /\ panic = ""
          /\ ctrl.mode = "parsed" =>
                ctrl.result =
                    Failure(ParseError("expected ')'", Some(Token("", Eof))))
    /\ (ctrl.mode = "parsed" /\ ctrl.result.r = "ok") =>
          \A token \in AtomsOf(ctrl.result.sexp) :
              token.kind \notin {Eof, LeftParen, RightParen}

\* The lexemes of tokens[i], tokens[i + 1], ... are pieces of the source
\* from position pos on, in this order, with only whitespace between them.
RECURSIVE InSourceOrder(_, _, _, _)
InSourceOrder(source, pos, tokens, i) ==
    IF i > Len(tokens) THEN \A p \in pos..Len(source) : source[p] \in Whitespace
    ELSE IF pos > Len(source) THEN FALSE
    ELSE IF source[pos] \in Whitespace
    THEN InSourceOrder(source, pos + 1, tokens, i)
    ELSE \E q \in pos..Len(source) :
            /\ Concat(SubSeq(source, pos, q)) = tokens[i].lexeme
            /\ InSourceOrder(source, q + 1, tokens, i + 1)

\* C29: Lexer::scan terminates on every input and returns Ok, with a token
\* list that ends in the only Eof token and has the other tokens in source
\* order, or the ScanError of an unterminated string with the position where
\* the string starts; it never aborts on a character access out of range,
\* also when the input ends with digits followed by "." or with a backslash
\* inside a string.
C29_ScanReturns ==
    /\ ctrl.mode = "scan" =>
          /\ panic = ""
          /\ Len(ctrl.lexer.tokens) <= ctrl.lexer.current
          /\ ctrl.lexer.current <= Len(ctrl.lexer.source) + 1
    /\ ctrl.mode = "scanned" =>
          LET tokens == ctrl.lexer.tokens
          IN  /\ tokens # <<>>
              /\ tokens[Len(tokens)] = Token("", Eof)
              /\ \A i \in 1..(Len(tokens) - 1) : tokens[i].kind # Eof
              /\ InSourceOrder(ctrl.lexer.source, 1,
                               SubSeq(tokens, 1, Len(tokens) - 1), 1)
    /\ ctrl.mode = "scan_error" =>
          /\ ctrl.error.message = "unfinished string"
          /\ ctrl.error.position < Len(ctrl.lexer.source)
          /\ ctrl.lexer.source[ctrl.error.position + 1] = "\""

\* The lists of an S-expression, at every depth.
RECURSIVE ListsOf(_)
ListsOf(sexp) ==
    IF IsAtom(sexp) THEN {}
    ELSE {sexp} \cup UNION {ListsOf(sexp.list[i]) : i \in DOMAIN sexp.list}

\* C30: every list of an S-expression the parser returns, at every depth,
\* has at least one element, so that evaluate_list finds the head it
\* unwraps; a stream in which ")" follows the first "(" directly, as in the
\* line "()", is rejected with a ParseError.
C30_ListsHaveHead ==
    ctrl.mode = "parsed" =>
      /\ ctrl.result.r = "ok" =>
            \A sexp \in ListsOf(ctrl.result.sexp) : sexp.list # <<>>
      /\ (/\ Len(ctrl.lexer.tokens) >= 2
          /\ ctrl.lexer.tokens[1].kind = LeftParen
          /\ ctrl.lexer.tokens[2].kind = RightParen) =>
            ctrl.result =
                Failure(ParseError("expected atom or list",
                                   Some(Token(")", RightParen))))

\* The line "()" has been scanned and parsed: the parser has returned an
\* error.
C30_Witness ==
    /\ ctrl.mode = "parsed"
    /\ ctrl.lexer.source = <<"(", ")">>
    /\ ctrl.result.r = "err"

\* Identifier atoms only.
AreIdentifiers(sexps) ==
    \A i \in DOMAIN sexps : IsAtom(sexps[i]) /\ sexps[i].atom.kind = Identifier

\* C24: defun! applied to an identifier, a list of identifiers and a body
\* returns the Function that has the identifier as its name, the listed
\* identifiers in their order as parameters and the body, and binds it to
\* the identifier in the layer that is topmost at that moment, leaving the
\* other layers and bindings alone.  With another number of arguments than
\* three, a name that is not an identifier, a parameter expression that is
\* not a list or a parameter that is not an identifier it returns an error
\* and the environment stays as it is.
C24_DefunBindsNamedFunction ==
    [][AtSpecialForm("defun") =>
         LET arguments == ctrl.arguments
             top == Len(layers)
         IN  IF /\ Len(arguments) = 3
                /\ AreIdentifiers(<<arguments[1]>>)
                /\ ~IsAtom(arguments[2])
                /\ AreIdentifiers(arguments[2].list)
             THEN LET lexeme == arguments[1].atom.lexeme
                      function ==
                          [t |-> "Function",
                           name |-> Some(lexeme),
                           arguments_identifiers |->
                               [i \in DOMAIN arguments[2].list |->
                                   arguments[2].list[i].atom],
                           body |-> arguments[3]]
                  IN  /\ ctrl'.mode = "return"
                      /\ ctrl'.result = Ok(function)
                      /\ Len(layers') = top
                      /\ \A i \in 1..(top - 1) : layers'[i] = layers[i]
                      /\ DOMAIN layers'[top] = DOMAIN layers[top] \cup {lexeme}
                      /\ layers'[top][lexeme] = function
                      /\ \A other \in DOMAIN layers[top] \ {lexeme} :
                            layers'[top][other] = layers[top][other]
             ELSE /\ ctrl'.mode = "return"
                  /\ ~ctrl'.result.ok
                  /\ layers' = layers
    ]_vars

\* defun! has been evaluated in the body of a function: g is bound in the
\* layer of the call and not in the global layer.
C24_Witness ==
    /\ ctrl.mode = "return"
    /\ ctrl.result = Ok(Function(Some("g"), <<Token("x", Identifier)>>, Id("x")))
    /\ acts[ctrl.act].expr = DefunG
    /\ Len(layers) = 2
    /\ "g" \in DOMAIN layers[2]
    /\ "g" \notin DOMAIN layers[1]

\* C25: lambda! applied to a list of identifiers and a body returns the
\* Function without a name that has these identifiers in their order as
\* parameters and the body as body.  It enters no evaluation, neither of
\* the parameter list nor of the body, and leaves the environment as it is:
\* no binding and no layer is added.  When an element of the parameter list
\* is not an identifier atom, it returns an error whose message names the
\* position of the first such element, counted from 1.
C25_LambdaBuildsFunction ==
    [][AtSpecialForm("lambda") =>
         LET arguments == ctrl.arguments
         IN  /\ layers' = layers
             /\ stack' = stack
             /\ Len(acts') = Len(acts)
             /\ ctrl'.mode = "return"
             /\ IF Len(arguments) = 2 /\ ~IsAtom(arguments[1])
                THEN LET params == arguments[1].list
                         bad == {i \in DOMAIN params :
                                    ~AreIdentifiers(<<params[i]>>)}
                     IN  IF bad = {}
                         THEN ctrl'.result =
                                Ok([t |-> "Function",
                                    name |-> None,
                                    arguments_identifiers |->
                                        [i \in DOMAIN params |->
                                            params[i].atom],
                                    body |-> arguments[2]])
                         ELSE LET first == CHOOSE i \in bad :
                                               \A j \in bad : i <= j
                              IN  /\ ~ctrl'.result.ok
                                  /\ ctrl'.result.message \in
                                       { ToString(first)
                                           \o "th argument is not an identifier!",
                                         "Expected list of arguments: "
                                           \o ToString(first)
                                           \o "th argument is not an identifier!" }
                ELSE ~ctrl'.result.ok
    ]_vars

\* lambda! has returned the function of the parameters x and y inside an
\* expression that is going to call it.
C25_Witness ==
    /\ ctrl.mode = "return"
    /\ acts[ctrl.act].expr = AddXY
    /\ acts[ctrl.act].invoked > 0
    /\ ctrl.result = Ok(Function(None, <<Token("x", Identifier),
                                         Token("y", Identifier)>>,
                                 L(<<Id("+"), Id("x"), Id("y")>>)))

\* The identifiers the expressions of a session bind or read.
SessionNames == {"a", "b", "c", "x", "y", "u", "f", "l", "+", "oof"}

\* C26: a set! or define! evaluated in the body of a user-defined function
\* binds in the layer of that call only.  The binding is what the
\* identifier looks up to from then on in the body; the global layer and the
\* layers of the enclosing calls keep their bindings; and when the call
\* returns, every identifier looks up to what it looked up to before the
\* call, a value or nothing.
C26_BindingLocalToCall ==
    /\ [][(AtReturn("value") /\ ctrl.result.ok /\ BodyFrames # {}) =>
            /\ Len(layers') = Len(layers)
            /\ \A i \in 1..(Len(layers) - 1) : layers'[i] = layers[i]
            /\ get(layers', Top.name) = ctrl.result]_vars
    /\ [][AtReturn("body") =>
            \A lexeme \in SessionNames :
                get(layers', Token(lexeme, Identifier))
                  = get(Top.saved, Token(lexeme, Identifier))]_vars
    /\ [](Finished =>
            /\ acts[1].expr = SetInCall =>
                  ctrl.result = Ok(List(<<Number(5), Number(5)>>))
            /\ acts[1].expr = SetUnderA =>
                  ctrl.result = Ok(List(<<Number(5), Number(7)>>))
            /\ (acts[1].expr = DefineInCall /\ ctrl.result.ok) =>
                  ctrl.result = Ok(List(<<Number(6), Number(6)>>)))

\* a is 1 in the global layer; a call whose parameter is a has called a
\* function that set a to 5, has read 7 from a, and has returned.
C26_Witness ==
    /\ Finished
    /\ acts[1].expr = SetUnderA
    /\ ctrl.result = Ok(List(<<Number(5), Number(7)>>))
    /\ Len(layers) = 1
    /\ get(layers, Token("a", Identifier)) = Ok(Number(1))

\* C27: a set! or define! that fails creates and changes no binding.  When
\* it fails for the number of its arguments, for a target that is a list or
\* a literal, or (define!) for a reserved name, it returns the error without
\* entering the evaluation of the value expression; when the value
\* expression fails, its error is returned and nothing is bound.
C27_FailedBindingBindsNothing ==
    /\ [][(AtSpecialForm("set") \/ AtSpecialForm("define")) =>
            LET arguments == ctrl.arguments
                rejected ==
                    \/ Len(arguments) # 2
                    \/ ~AreIdentifiers(<<arguments[1]>>)
                    \/ /\ ctrl.sf = "define"
                       /\ arguments[1].atom.lexeme \in
                            special_forms \cup native_functions \cup constants
            IN  /\ layers' = layers
                /\ IF rejected
                   THEN /\ ctrl'.mode = "return"
                        /\ ~ctrl'.result.ok
                        /\ Len(acts') = Len(acts)
                        /\ stack' = stack
                   ELSE /\ ctrl'.mode = "evaluate"
                        /\ ctrl'.expr = arguments[2]]_vars
    /\ [][(AtReturn("value") /\ ~ctrl.result.ok) =>
            /\ layers' = layers
            /\ ctrl'.mode = "return"
            /\ ctrl'.result = ctrl.result]_vars

\* define! has rejected the reserved name + without evaluating the value
\* expression, and + is still the native function.
C27_Witness ==
    /\ ctrl.mode = "return"
    /\ acts[ctrl.act].expr = DefineForm("+", Num(1))
    /\ acts[ctrl.act].invoked > 0
    /\ ~ctrl.result.ok
    /\ \A c \in DOMAIN acts : acts[c].expr # Num(1)
    /\ layers[1]["+"] = Native("+")

\* C28: a failed evaluation is not rolled back.  When a top-level
\* expression has failed, the environment has one layer again and the
\* bindings its sub-expressions made in the global layer before the failure
\* are there; the front end that takes the error and the start of the next
\* evaluation leave the environment as it is, so that the following
\* evaluations of the session read these bindings.
C28_FailureKeepsBindings ==
    /\ [](Finished => Len(layers) = 1)
    /\ []((Finished /\ acts[1].expr = SetThenFail) =>
            /\ ctrl.result = Err("unboud symbol 'oof'")
            /\ get(layers, Token("a", Identifier)) = Ok(Number(9)))
    /\ [][(Finished \/ (Idle /\ ctrl'.mode = "evaluate")) =>
            layers' = layers]_vars
    /\ []((Finished /\ IsAtom(acts[1].expr)
                    /\ acts[1].expr.atom.kind = Identifier) =>
            ctrl.result = get(layers, acts[1].expr.atom))

\* An evaluation of a after the failed (list (set! a 9) oof), the only
\* expression of the session that binds a to 9, has returned 9.
C28_Witness ==
    /\ Finished
    /\ acts[1].expr = Id("a")
    /\ ctrl.result = Ok(Number(9))
    /\ Len(layers) = 1

====
